---- MODULE Spec2Model ----
(***************************************************************************)
(* Model of the agent-core reasoning loop (crates/agent-core): the ReAct   *)
(* loop of Agent::run, tool-call detection in the model's free text, and   *)
(* the validate-then-execute dispatch of ToolRegistry.                     *)
(*                                                                         *)
(* Text is modelled as a sequence of lexical tokens.  A token is a record  *)
(* [k, v]: k = "str" is a double-quoted JSON string literal whose value    *)
(* is v (so the literal "tool", quotes included, occurs in a text exactly  *)
(* where the token Str("tool") occurs), k = "p" is punctuation, a fence    *)
(* marker, a bare JSON literal or white space, k = "w" is prose.           *)
(***************************************************************************)
EXTENDS Integers, Sequences, FiniteSets, TLC

\* ------------------------------------------------------------------------
\* Bounds
\* ------------------------------------------------------------------------
MaxIter == 3

\* ------------------------------------------------------------------------
\* Tokens
\* ------------------------------------------------------------------------
Str(s) == [k |-> "str", v |-> s]
P(s) == [k |-> "p", v |-> s]
T(s) == [k |-> "w", v |-> s]

\* OPEN is the opening marker (three backticks followed by the word tool),
\* FENCE the closing marker (three backticks).
OPEN == P("[fence]tool")
FENCE == P("[fence]")
LB == P("{")
RB == P("}")
COLON == P(":")
COMMA == P(",")
NUM == P("7")
NULL == P("null")
SP == P(" ")
NL == P("newline")
W == T("prose")

IsWhitespace(t) == t = SP \/ t = NL

\* str::trim followed by the skipping by serde_json of insignificant white space
\* between JSON tokens: no white-space token of the span reaches the grammar.
Trim(toks) == SelectSeq(toks, LAMBDA t : ~IsWhitespace(t))

\* ------------------------------------------------------------------------
\* serde_json values and Option<String>
\* ------------------------------------------------------------------------
NullValue == [t |-> "null", s |-> "", m |-> <<>>]
StrValue(s) == [t |-> "str", s |-> s, m |-> <<>>]
NumValue(s) == [t |-> "num", s |-> s, m |-> <<>>]
ObjValue(pairs) == [t |-> "obj", s |-> "", m |-> pairs]

None == [some |-> FALSE, v |-> "", n |-> 0]
Some(s) == [some |-> TRUE, v |-> s, n |-> 0]
Uuid(n) == [some |-> TRUE, v |-> "uuid", n |-> n]

ParseFail == [ok |-> FALSE, next |-> 0, val |-> NullValue]
ParseOk(next, val) == [ok |-> TRUE, next |-> next, val |-> val]

\* JSON grammar over tokens: value := string | number | null | object;
\* object := { } | { pair (, pair)* }; pair := string : value.
\* ParseValue reads one value starting at index i and returns the index
\* after it; ParseMembers reads the pairs of an object after its "{".
RECURSIVE ParseValue(_, _)
RECURSIVE ParseMembers(_, _, _)
ParseValue(toks, i) ==
    IF i > Len(toks) THEN ParseFail
    ELSE IF toks[i].k = "str" THEN ParseOk(i + 1, StrValue(toks[i].v))
    ELSE IF toks[i] = NUM THEN ParseOk(i + 1, NumValue(toks[i].v))
    ELSE IF toks[i] = NULL THEN ParseOk(i + 1, NullValue)
    ELSE IF toks[i] = LB THEN
        IF i + 1 <= Len(toks) /\ toks[i + 1] = RB
        THEN ParseOk(i + 2, ObjValue(<<>>))
        ELSE ParseMembers(toks, i + 1, <<>>)
    ELSE ParseFail

ParseMembers(toks, i, acc) ==
    IF i + 1 > Len(toks) THEN ParseFail
    ELSE IF toks[i].k # "str" \/ toks[i + 1] # COLON THEN ParseFail
    ELSE LET r == ParseValue(toks, i + 2) IN
         IF ~r.ok \/ r.next > Len(toks) THEN ParseFail
         ELSE LET acc2 == Append(acc, <<toks[i].v, r.val>>) IN
              IF toks[r.next] = RB THEN ParseOk(r.next + 1, ObjValue(acc2))
              ELSE IF toks[r.next] = COMMA THEN ParseMembers(toks, r.next + 1, acc2)
              ELSE ParseFail

\* Indices of the pairs of an object that carry the key.
KeyIdx(pairs, key) == {i \in 1..Len(pairs) : pairs[i][1] = key}

\* Value bound to a key present in the pairs; a HashMap keeps the last one.
LastValue(pairs, key) ==
    pairs[CHOOSE i \in KeyIdx(pairs, key) : \A j \in KeyIdx(pairs, key) : j <= i][2]

\* HashMap<String, serde_json::Value> built from the pairs of an object.
ToMap(pairs) ==
    [key \in {pairs[i][1] : i \in 1..Len(pairs)} |-> LastValue(pairs, key)]

NoCall == [some |-> FALSE, name |-> "", arguments |-> ToMap(<<>>), id |-> None]
SomeCall(name, arguments, id) ==
    [some |-> TRUE, name |-> name, arguments |-> arguments, id |-> id]

\* The JSON key read into ToolCall.name: the struct derives Deserialize and
\* carries no rename attribute, so the key is the field's own name.
NameField == "name"

\* serde_json::from_str::<ToolCall>: the whole span is one JSON object;
\* name is a required string, arguments a required object, id an optional
\* string or null; a repeated known field is an error, an unknown field is
\* skipped; anything after the object is an error.
FromStr(span) ==
    LET toks == Trim(span)
        r == ParseValue(toks, 1)
    IN IF ~r.ok \/ r.next # Len(toks) + 1 \/ r.val.t # "obj" THEN NoCall
       ELSE LET ps == r.val.m
                n == KeyIdx(ps, NameField)
                a == KeyIdx(ps, "arguments")
                d == KeyIdx(ps, "id")
            IN IF Cardinality(n) # 1 \/ Cardinality(a) # 1 \/ Cardinality(d) > 1
               THEN NoCall
               ELSE LET nv == LastValue(ps, NameField)
                        av == LastValue(ps, "arguments")
                        dv == IF d = {} THEN NullValue ELSE LastValue(ps, "id")
                    IN IF nv.t # "str" \/ av.t # "obj" \/ dv.t \notin {"str", "null"}
                       THEN NoCall
                       ELSE SomeCall(nv.s, ToMap(av.m),
                                     IF dv.t = "str" THEN Some(dv.s) ELSE None)

\* str::find / str::rfind of a pattern, given as the set of the tokens in
\* which the pattern occurs: 0 stands for None.
Find(toks, from, pat) ==
    LET hits == {i \in from..Len(toks) : toks[i] \in pat}
    IN IF hits = {} THEN 0 ELSE CHOOSE i \in hits : \A j \in hits : i <= j

RFind(toks, pat) ==
    LET hits == {i \in 1..Len(toks) : toks[i] \in pat}
    IN IF hits = {} THEN 0 ELSE CHOOSE i \in hits : \A j \in hits : j <= i

ToolStart == {OPEN}
\* The closing marker is a prefix of the opening marker.
ToolEnd == {FENCE, OPEN}
ToolKey == {Str("tool")}

\* A variant of the fallback that does not look for the literal "tool".
ParseInlineToolCallUnguarded(content) ==
    LET start == Find(content, 1, {LB})
        end == RFind(content, {RB})
    IN IF start = 0 \/ end = 0 \/ end <= start THEN NoCall
       ELSE FromStr(SubSeq(content, start, end))

\* Agent::parse_inline_tool_call
ParseInlineToolCall(content) ==
    IF Find(content, 1, ToolKey) = 0 THEN NoCall
    ELSE LET start == Find(content, 1, {LB})
             end == RFind(content, {RB})
         IN IF start = 0 \/ end = 0 \/ end <= start THEN NoCall
            ELSE FromStr(SubSeq(content, start, end))

\* The primary stage of Agent::parse_tool_call: the body between the first
\* opening marker and the first closing marker after it.
ParseFenced(content) ==
    LET start_idx == Find(content, 1, ToolStart)
    IN IF start_idx = 0 THEN NoCall
       ELSE LET end_idx == Find(content, start_idx + 1, ToolEnd)
            IN IF end_idx = 0 THEN NoCall
               ELSE FromStr(SubSeq(content, start_idx + 1, end_idx - 1))

\* A variant that consults the brace scan before the fenced block.
ParseToolCallInlineFirst(content, fresh) ==
    LET inline == ParseInlineToolCall(content)
        call == ParseFenced(content)
    IN IF inline.some THEN inline
       ELSE IF call.some /\ ~call.id.some THEN [call EXCEPT !.id = Uuid(fresh)]
       ELSE call

\* Agent::parse_tool_call; fresh is the next unused uuid.
ParseToolCall(content, fresh) ==
    LET call == ParseFenced(content)
    IN IF call.some
       THEN IF call.id.some THEN call
            ELSE [call EXCEPT !.id = Uuid(fresh)]
       ELSE ParseInlineToolCall(content)

\* ------------------------------------------------------------------------
\* Errors (AgentError) and results
\* ------------------------------------------------------------------------
Error(kind, msg) == [kind |-> kind, msg |-> msg, n |-> 0]
MaxIterationsError(n) == [kind |-> "MaxIterations", msg |-> <<>>, n |-> n]
NoError == [kind |-> "", msg |-> <<>>, n |-> 0]

ProviderErrorKinds == {"Provider", "ProviderUnavailable", "RateLimited"}
ToolErrorKinds == {"ToolNotFound", "ToolValidation", "ToolExecution"}

\* The thiserror Display text of an error.
Display(e) ==
    CASE e.kind = "Provider" -> <<T("Provider error: ")>> \o e.msg
      [] e.kind = "ProviderUnavailable" -> <<T("Provider unavailable: ")>> \o e.msg
      [] e.kind = "ToolNotFound" -> <<T("Tool not found: ")>> \o e.msg
      [] e.kind = "ToolValidation" -> <<T("Tool validation error: ")>> \o e.msg
      [] e.kind = "ToolExecution" -> <<T("Tool execution error: ")>> \o e.msg
      [] e.kind = "RateLimited" -> <<T("Rate limited: ")>> \o e.msg
      [] OTHER -> <<T("Maximum iterations reached")>>

NoToolResult == [name |-> "", id |-> None, success |-> FALSE, output |-> <<>>]
ToolResultSuccess(name, output) ==
    [name |-> name, id |-> None, success |-> TRUE, output |-> output]
ToolResultFailure(name, error) ==
    [name |-> name, id |-> None, success |-> FALSE, output |-> error]

Ok(result) == [ok |-> TRUE, result |-> result, err |-> NoError]
Err(e) == [ok |-> FALSE, result |-> NoToolResult, err |-> e]

\* ------------------------------------------------------------------------
\* Tools and the registry
\* ------------------------------------------------------------------------
Param(name, required) == [name |-> name, required |-> required]

\* Tool::schema of the two built-in tools: the name and the ordered
\* parameters with their required flag.
Schema(tool) ==
    IF tool = "DateTimeTool"
    THEN [name |-> "datetime",
          parameters |-> <<Param("format", FALSE), Param("timezone", FALSE)>>]
    ELSE [name |-> "calculate",
          parameters |-> <<Param("expression", TRUE)>>]

\* evaluate_expression on the expressions the model feeds it.
EvaluateExpression(expr) ==
    CASE expr = "2+2" -> [ok |-> TRUE, text |-> "4"]
      [] expr = "1/0" -> [ok |-> FALSE, text |-> "Division by zero"]
      [] OTHER -> [ok |-> FALSE, text |-> "Parse error"]

\* Tool::execute of the two built-in tools.
ToolExecute(tool, call) ==
    IF tool = "DateTimeTool"
    THEN LET format == IF "format" \in DOMAIN call.arguments
                          /\ call.arguments["format"].t = "str"
                       THEN call.arguments["format"].s ELSE "human"
         IN Ok(ToolResultSuccess("datetime",
                 <<T(IF format \in {"iso", "unix"} THEN format ELSE "human")>>))
    ELSE IF "expression" \notin DOMAIN call.arguments
            \/ call.arguments["expression"].t # "str"
         THEN Err(Error("ToolValidation", <<T("Missing expression")>>))
         ELSE LET expr == call.arguments["expression"].s
                  r == EvaluateExpression(expr)
              IN IF r.ok
                 THEN Ok(ToolResultSuccess("calculate", <<T(expr), T(" = "), T(r.text)>>))
                 ELSE Ok(ToolResultFailure("calculate", <<T(r.text)>>))

\* A variant that accepts every call.
ValidateNothing(tool, call) == NoError

\* A variant that counts a parameter bound to null as missing.
ValidateNonNull(tool, call) ==
    LET ps == Schema(tool).parameters
        missing == {i \in 1..Len(ps) :
                        /\ ps[i].required
                        /\ \/ ps[i].name \notin DOMAIN call.arguments
                           \/ call.arguments[ps[i].name] = NullValue}
    IN IF missing = {} THEN NoError
       ELSE LET i == CHOOSE i \in missing : \A j \in missing : i <= j
            IN Error("ToolValidation",
                     <<T("Missing required parameter: "), T(ps[i].name)>>)

\* Tool::validate (the default method; no tool overrides it): the first
\* required parameter, in schema order, that is not a key of the arguments.
Validate(tool, call) ==
    LET ps == Schema(tool).parameters
        missing == {i \in 1..Len(ps) :
                        ps[i].required /\ ps[i].name \notin DOMAIN call.arguments}
    IN IF missing = {} THEN NoError
       ELSE LET i == CHOOSE i \in missing : \A j \in missing : i <= j
            IN Error("ToolValidation",
                     <<T("Missing required parameter: "), T(ps[i].name)>>)

\* ToolRegistry::register applied to the tools of a set.
Registry(toolset) ==
    [name \in {Schema(t).name : t \in toolset} |->
        CHOOSE t \in toolset : Schema(t).name = name]

\* A variant that falls back to some registered tool for an unknown name.
RegistryGetFallback(reg, name) ==
    IF name \in DOMAIN reg THEN [some |-> TRUE, tool |-> reg[name]]
    ELSE IF DOMAIN reg # {}
         THEN [some |-> TRUE, tool |-> reg[CHOOSE n \in DOMAIN reg : TRUE]]
         ELSE [some |-> FALSE, tool |-> ""]

\* ToolRegistry::get: the tool registered under the name, if any.
RegistryGet(reg, name) ==
    IF name \in DOMAIN reg THEN [some |-> TRUE, tool |-> reg[name]]
    ELSE [some |-> FALSE, tool |-> ""]

Invoked(op, tool) == [op |-> op, tool |-> tool]

\* ToolRegistry::execute: the outcome together with the tool code it ran.
RegistryExecute(reg, call) ==
    LET found == RegistryGet(reg, call.name)
    IN IF ~found.some
       THEN [out |-> Err(Error("ToolNotFound", <<T(call.name)>>)), invoked |-> <<>>]
       ELSE LET v == Validate(found.tool, call)
            IN IF v # NoError
               THEN [out |-> Err(v), invoked |-> <<Invoked("validate", found.tool)>>]
               ELSE [out |-> ToolExecute(found.tool, call),
                     invoked |-> <<Invoked("validate", found.tool),
                                   Invoked("execute", found.tool)>>]

\* ------------------------------------------------------------------------
\* Messages and conversations
\* ------------------------------------------------------------------------
Message(role, content) == [role |-> role, content |-> content, tool_call_id |-> None]
MessageSystem(content) == Message("system", content)
MessageUser(content) == Message("user", content)
\* A variant that stores the trimmed text instead of the raw text.
MessageAssistantTrimmed(content) == Message("assistant", Trim(content))
\* A variant that records nothing of a text in which a call is recognised.
MessageAssistantUnlessCall(content) ==
    Message("assistant", IF ParseToolCall(content, 0).some THEN <<>> ELSE content)
MessageAssistant(content) == Message("assistant", content)
\* A variant that files the tool result under the Assistant role.
MessageToolAsAssistant(content, tool_call_id) ==
    [role |-> "assistant", content |-> content, tool_call_id |-> tool_call_id]

\* Message::tool: the metadata is set only when an id is present.
MessageTool(content, tool_call_id) ==
    [role |-> "tool", content |-> content, tool_call_id |-> tool_call_id]

\* A variant where a Tool message takes the place of the message before it.
PushOverwriting(messages, message) ==
    IF message.role = "tool" /\ messages # <<>>
    THEN [messages EXCEPT ![Len(messages)] = message]
    ELSE Append(messages, message)

\* A variant that evicts the oldest message after the first to make room.
PushEvicting(messages, message) ==
    IF Len(messages) >= 4
    THEN Append(<<messages[1]>> \o SubSeq(messages, 3, Len(messages)), message)
    ELSE Append(messages, message)

\* Conversation::push
Push(messages, message) == Append(messages, message)

\* ------------------------------------------------------------------------
\* The agent
\* ------------------------------------------------------------------------
\* AgentConfig::default().inject_tool_descriptions
InjectToolDescriptions == TRUE

\* ToolRegistry::generate_prompt_section: the heading and one entry per
\* registered tool, in the iteration order of the map.
GeneratePromptSection(reg) ==
    LET names == DOMAIN reg
        order == CHOOSE q \in [1..Cardinality(names) -> names] :
                     \A n \in names : \E i \in DOMAIN q : q[i] = n
    IN <<T("## Available Tools")>> \o [i \in DOMAIN order |-> T(order[i])]

\* Agent::build_system_prompt
BuildSystemPrompt(reg) ==
    IF InjectToolDescriptions /\ DOMAIN reg # {}
    THEN <<T("system_prompt"), NL, NL>> \o GeneratePromptSection(reg)
    ELSE <<T("system_prompt")>>

\* A variant that primes an empty conversation only.
NeedsSystemPromptWhenEmpty(messages) == Len(messages) = 0

\* The test that opens Agent::run: the first message is not a System one.
NeedsSystemPrompt(messages) ==
    Len(messages) = 0 \/ messages[1].role # "system"

\* The priming step of Agent::run.
Prime(messages, reg) ==
    IF NeedsSystemPrompt(messages)
    THEN <<MessageSystem(BuildSystemPrompt(reg))>> \o messages
    ELSE messages

\* Variants of the bound test that are off by one in each direction.
LimitExceededEarly(iters, max) == iters >= max
LimitExceededLate(iters, max) == iters > max + 1

\* The bound test at the head of the loop, on the incremented counter.
LimitExceeded(iters, max) == iters > max

\* A variant that wraps the provider's error into the catch-all kind.
PropagateWrapped(e) == [kind |-> "Other", msg |-> e.msg, n |-> 0]

\* The conversion the ? operator applies to the error of provider.complete.
Propagate(e) == e

\* A variant that reports a dispatch error as a successful result.
ExecuteToolErrorAsSuccess(out, call) ==
    IF out.ok THEN [out.result EXCEPT !.id = call.id]
    ELSE [name |-> call.name, id |-> call.id, success |-> TRUE,
          output |-> <<T("Error: ")>> \o Display(out.err)]

\* Agent::execute_tool, given the outcome of ToolRegistry::execute.
ExecuteTool(out, call) ==
    IF out.ok THEN [out.result EXCEPT !.id = call.id]
    ELSE [name |-> call.name, id |-> call.id, success |-> FALSE,
          output |-> <<T("Error: ")>> \o Display(out.err)]

\* A variant that heads every result as returned.
FormatToolResultUniform(result) ==
    <<T("[Tool '"), T(result.name), T("' returned]"), NL>> \o result.output

\* Agent::format_tool_result
FormatToolResult(result) ==
    <<T("[Tool '"), T(result.name),
      T(IF result.success THEN "' returned]" ELSE "' failed]"), NL>>
    \o result.output

\* ------------------------------------------------------------------------
\* Inputs: the texts a provider may return, the errors it may fail with,
\* the conversations and registries a run may start from
\* ------------------------------------------------------------------------
KV(key, value) == <<Str(key), COLON, SP>> \o value
Obj2(a, b) == <<LB>> \o a \o <<COMMA, SP>> \o b \o <<RB>>
Obj3(a, b, c) == <<LB>> \o a \o <<COMMA, SP>> \o b \o <<COMMA, SP>> \o c \o <<RB>>
Block(body) == <<OPEN, NL>> \o body \o <<NL, FENCE>>

\* The object of the documented wire format, keyed by "tool".
WireDatetime == Obj2(KV("tool", <<Str("datetime")>>), KV("arguments", <<LB, RB>>))
\* Objects keyed by "name".
NameDatetime == Obj2(KV("name", <<Str("datetime")>>), KV("arguments", <<LB, RB>>))
NameDatetimeId ==
    Obj3(KV("name", <<Str("datetime")>>),
         KV("arguments", Obj2(KV("format", <<Str("iso")>>), KV("timezone", <<NULL>>))),
         KV("id", <<Str("c1")>>))
NameCalc(args) == Obj2(KV("name", <<Str("calculate")>>), KV("arguments", args))
NameNosuch == Obj2(KV("name", <<Str("nosuch")>>), KV("arguments", <<LB, RB>>))
BothKeys ==
    Obj3(KV("tool", <<Str("calculate")>>), KV("name", <<Str("datetime")>>),
         KV("arguments", <<LB, RB>>))

Prose == {<<>>, <<W, NL>>}

\* A fenced block in the documented wire format at every position in prose.
WireTexts == {pre \o Block(WireDatetime) \o post : pre \in Prose, post \in Prose}

ToolTexts ==
    { \* a fenced object that also holds the key the brace scan looks for
      <<W, NL>> \o Block(BothKeys),
      Block(NameDatetimeId) \o <<NL, W>>,
      Block(NameCalc(<<LB, Str("expression"), COLON, Str("2+2"), RB>>)),
      Block(NameCalc(<<LB, Str("expression"), COLON, Str("1/0"), RB>>)),
      \* a required parameter bound to null, next to a key no schema names
      Block(NameCalc(<<LB, Str("expression"), COLON, NULL, COMMA, SP,
                       Str("extra"), COLON, NUM, RB>>)) \o <<W>>,
      Block(NameCalc(<<LB, RB>>)),
      Block(NameCalc(<<LB, Str("format"), COLON, Str("iso"), RB>>)),
      Block(NameNosuch) }

OtherTexts ==
    { <<W>>,
      \* an opening marker that is never closed
      <<W, NL, OPEN, NL>> \o NameDatetime,
      \* the same, in a text that holds the literal "tool"
      <<OPEN, NL>> \o BothKeys,
      \* a fenced body that is not a JSON object
      Block(<<LB, Str("name"), COLON>>),
      \* no fence at all
      <<W, SP>> \o BothKeys \o <<SP, W>>,
      <<W, SP>> \o WireDatetime,
      <<Str("tool"), W, LB, W, RB>>,
      \* a fenced body that does not parse, then an object in the prose
      Block(<<W>>) \o <<NL>> \o BothKeys }

Texts == WireTexts \cup ToolTexts \cup OtherTexts

ProviderErrors ==
    { Error("Provider", <<T("bad request")>>),
      Error("ProviderUnavailable", <<T("connection refused")>>),
      Error("RateLimited", <<T("slow down")>>) }

EntryConversations ==
    { <<>>,
      <<MessageUser(<<W>>)>>,
      <<MessageSystem(<<T("custom")>>), MessageUser(<<W>>)>>,
      <<MessageUser(<<W>>), MessageSystem(<<T("custom")>>)>> }

Registries == {Registry({"DateTimeTool"}), Registry({"DateTimeTool", "CalculatorTool"})}

\* ------------------------------------------------------------------------
\* State
\* ------------------------------------------------------------------------
VARIABLES
    tools,          \* the agent's ToolRegistry
    max_iterations, \* config.max_iterations
    conversation,   \* the messages of the conversation run mutates
    iterations,     \* the loop counter of run
    pc,             \* where run is
    tool_call,      \* the call handed to execute_tool, while it is awaited
    next_uuid,      \* the uuids generated so far, plus one
    result,         \* what run returned
    entry,          \* history: the conversation passed to run
    requests,       \* history: the message list of each provider.complete call
    responses,      \* history: what each provider.complete call returned
    executions,     \* history: each ToolRegistry::execute call and its outcome
    providers,      \* ProviderChain.providers, in registration order
    strategy,       \* ProviderChain.strategy
    current_index,  \* ProviderChain.current_index, the shared atomic cursor
    callers,        \* each caller's position inside next_provider
    selections,     \* history: what each next_provider call returned
    fetches,        \* history: next_provider calls past their atomic step
    advances,       \* history: advance calls made
    overlap,        \* history: a call was entered while another was in flight
    max_context_tokens, \* Conversation.max_context_tokens
    op,             \* where truncate_to_fit is
    before,         \* history: the messages truncate_to_fit was called on
    estimate,       \* history: the last Conversation::estimate_tokens call
    built_by,       \* history: how the conversation was constructed
    registry,       \* ToolRegistry.tools of a registry under construction
    order,          \* the order in which that map iterates
    registrations,  \* history: the tools registered, in call order
    renders,        \* history: the generate_prompt_section calls
    builder, \* the AgentBuilder being assembled
    built, \* what AgentBuilder::build returned
    backend, \* the state of the Ollama server the client talks to
    calls, \* history: the OllamaProvider calls and what they returned
    today, \* the UTC date the system clock shows
    licenses, \* MemoryLicenseStore.licenses
    licenses_lock, \* the holder of the write lock on licenses
    verifiers, \* each thread's position inside verify_and_use
    checks, \* history: per date, the usage checks made
    granted, \* history: per date, the usage checks that succeeded
    sessions, \* MemorySessionStore.sessions
    store_calls, \* history: the save, load and delete calls and what they returned
    request, \* the arguments of DiversificationStrategy::allocate and the profile of self
    allocated, \* history: allocate has returned
    allocations, \* the list allocate returned
    store_licenses, \* MemoryLicenseStore.licenses of the store several callers share
    by_subscription, \* MemoryLicenseStore.by_subscription
    licenses_rw, \* the RwLock around licenses: its writer and its readers
    by_subscription_rw, \* the RwLock around by_subscription
    clients, \* each thread's call of the store and its position inside it
    license_calls, \* history: the number of calls begun
    keys_generated, \* the license keys LicenseKey::generate has handed out
    handled \* history: the webhook events handle has processed

\* The variables of a run other than the conversation itself.
run_vars == <<tools, max_iterations, iterations, pc, tool_call, next_uuid,
              result, entry, requests, responses, executions>>

\* The variables of the provider chain.
chain_vars == <<providers, strategy, current_index, callers, selections,
                fetches, advances, overlap>>

\* The variables of the conversation utilities other than the messages.
conv_vars == <<max_context_tokens, op, before, estimate, built_by>>

\* The variables of a tool registry under construction.
reg_vars == <<registry, order, registrations, renders>>

\* The variables of an AgentBuilder.
builder_vars == <<builder, built>>

\* The variables of an OllamaProvider and its backend.
ollama_vars == <<backend, calls>>

\* The variables of a MemoryLicenseStore and its callers.
license_vars == <<today, licenses, licenses_lock, verifiers, checks, granted>>

\* The variables of a MemorySessionStore.
session_vars == <<sessions, store_calls>>

\* The variables of an allocation.
alloc_vars == <<request, allocated, allocations>>

\* The variables of the shared license store and the webhook handler.
clients_vars == <<store_licenses, by_subscription, licenses_rw,
                  by_subscription_rw, clients, license_calls,
                  keys_generated, handled>>

vars == <<conversation, run_vars, chain_vars, conv_vars, reg_vars,
          builder_vars, ollama_vars, license_vars, session_vars,
          alloc_vars, clients_vars>>

\* What the actions of each component leave alone.
outside_run == <<chain_vars, conv_vars, reg_vars, builder_vars, ollama_vars,
                 license_vars, session_vars, alloc_vars,
                 clients_vars>>
outside_chain == <<conversation, run_vars, conv_vars, reg_vars, builder_vars,
                   ollama_vars, license_vars,
                   session_vars, alloc_vars, clients_vars>>
outside_conv == <<run_vars, chain_vars, reg_vars, builder_vars, ollama_vars,
                  license_vars, session_vars, alloc_vars,
                  clients_vars>>
outside_reg == <<conversation, run_vars, chain_vars, conv_vars, builder_vars,
                 ollama_vars, license_vars, session_vars,
                 alloc_vars, clients_vars>>
outside_builder == <<conversation, run_vars, chain_vars, conv_vars, reg_vars,
                     ollama_vars, license_vars,
                     session_vars, alloc_vars,
                     clients_vars>>
outside_ollama ==
    <<conversation, run_vars, chain_vars, conv_vars,
      reg_vars, builder_vars, license_vars, session_vars,
                    alloc_vars, clients_vars>>
outside_license ==
    <<conversation, run_vars, chain_vars, conv_vars,
      reg_vars, builder_vars, ollama_vars, session_vars,
                     alloc_vars, clients_vars>>
outside_session ==
    <<conversation, run_vars, chain_vars, conv_vars,
      reg_vars, builder_vars, ollama_vars, license_vars,
                     alloc_vars, clients_vars>>
outside_alloc ==
    <<conversation, run_vars, chain_vars, conv_vars,
      reg_vars, builder_vars, ollama_vars, license_vars, session_vars,
                   clients_vars>>
outside_clients ==
    <<conversation, run_vars, chain_vars, conv_vars,
      reg_vars, builder_vars, ollama_vars, license_vars, session_vars, alloc_vars>>

\* No provider chain is in use: an empty chain nobody calls.
NoChain ==
    /\ providers = <<>>
    /\ strategy = "Single"
    /\ current_index = 0
    /\ callers = <<>>
    /\ selections = <<>>
    /\ fetches = 0
    /\ advances = 0
    /\ overlap = FALSE

\* Conversation::new (derived Default): the budget field is zero; no
\* utility method is running and none has been called.
NoConversationCall ==
    /\ max_context_tokens = 0
    /\ op = "idle"
    /\ before = <<>>
    /\ estimate = [some |-> FALSE, value |-> 0, of |-> <<>>]
    /\ built_by = "new"

\* ToolRegistry::new: no registry is under construction.
NoRegistration ==
    /\ registry = <<>>
    /\ order = <<>>
    /\ registrations = <<>>
    /\ renders = <<>>

\* No agent is being assembled.
NoBuilder ==
    /\ builder = <<>>
    /\ built = <<>>

\* No Ollama provider is in use.
NoOllama ==
    /\ backend = "up"
    /\ calls = <<>>

\* MemoryLicenseStore::new: an empty store nobody calls.
NoLicenseStore ==
    /\ today = 1
    /\ licenses = <<>>
    /\ licenses_lock = 0
    /\ verifiers = <<>>
    /\ checks = <<>>
    /\ granted = <<>>

\* MemorySessionStore::new: an empty store nobody calls.
NoSessionStore ==
    /\ sessions = <<>>
    /\ store_calls = <<>>

\* No allocation has been asked for.
NoAllocation ==
    /\ request = <<>>
    /\ allocated = FALSE
    /\ allocations = <<>>

\* MemoryLicenseStore::new: an empty store with free locks and no caller.
NoLicenseClients ==
    /\ store_licenses = <<>>
    /\ by_subscription = <<>>
    /\ licenses_rw = <<>>
    /\ by_subscription_rw = <<>>
    /\ clients = <<>>
    /\ license_calls = 0
    /\ keys_generated = 0
    /\ handled = <<>>

\* No run is in progress.
NoRun ==
    /\ tools = Registry({})
    /\ max_iterations = 0
    /\ iterations = 0
    /\ pc = "idle"
    /\ tool_call = NoCall
    /\ next_uuid = 1
    /\ result = [tag |-> "none", text |-> <<>>, err |-> NoError]
    /\ entry = <<>>
    /\ requests = <<>>
    /\ responses = <<>>
    /\ executions = <<>>

NoResult == [tag |-> "none", text |-> <<>>, err |-> NoError]
RunOk(text) == [tag |-> "ok", text |-> text, err |-> NoError]
RunErr(e) == [tag |-> "err", text |-> <<>>, err |-> e]

Init ==
    /\ tools \in Registries
    /\ max_iterations \in 0..MaxIter
    /\ conversation \in EntryConversations
    /\ entry = conversation
    /\ iterations = 0
    /\ pc = "entry"
    /\ tool_call = NoCall
    /\ next_uuid = 1
    /\ result = NoResult
    /\ requests = <<>>
    /\ responses = <<>>
    /\ executions = <<>>
    /\ NoChain
    /\ NoConversationCall
    /\ NoRegistration
    /\ NoBuilder
    /\ NoOllama
    /\ NoLicenseStore
    /\ NoSessionStore
    /\ NoAllocation
    /\ NoLicenseClients

\* Agent::run, up to the loop: the system prompt is primed.
RunStart ==
    /\ pc = "entry"
    /\ conversation' = Prime(conversation, tools)
    /\ pc' = "loop"
    /\ UNCHANGED <<tools, max_iterations, iterations, tool_call, next_uuid,
                   result, entry, requests, responses, executions>>
    /\ UNCHANGED outside_run

\* The head of the loop when the bound is exceeded: run fails.
LimitReached ==
    /\ pc = "loop"
    /\ LimitExceeded(iterations + 1, max_iterations)
    /\ iterations' = iterations + 1
    /\ result' = RunErr(MaxIterationsError(max_iterations))
    /\ pc' = "done"
    /\ UNCHANGED <<tools, max_iterations, conversation, tool_call, next_uuid,
                   entry, requests, responses, executions>>
    /\ UNCHANGED outside_run

\* The head of the loop otherwise: provider.complete is called and awaited.
CallProvider ==
    /\ pc = "loop"
    /\ ~LimitExceeded(iterations + 1, max_iterations)
    /\ iterations' = iterations + 1
    /\ requests' = Append(requests, conversation)
    /\ pc' = "awaiting_completion"
    /\ UNCHANGED <<tools, max_iterations, conversation, tool_call, next_uuid,
                   result, entry, responses, executions>>
    /\ UNCHANGED outside_run

\* provider.complete fails: the error leaves run through the ? operator.
CompletionFails(e) ==
    /\ pc = "awaiting_completion"
    /\ responses' = Append(responses, [ok |-> FALSE, text |-> <<>>, err |-> e])
    /\ result' = RunErr(Propagate(e))
    /\ pc' = "done"
    /\ UNCHANGED <<tools, max_iterations, conversation, iterations, tool_call,
                   next_uuid, entry, requests, executions>>
    /\ UNCHANGED outside_run

\* provider.complete returns a completion: it is recorded, then scanned for
\* a tool call; a call is handed to execute_tool, no call ends the run.
CompletionReturns(content) ==
    /\ pc = "awaiting_completion"
    /\ responses' = Append(responses, [ok |-> TRUE, text |-> content, err |-> NoError])
    /\ conversation' = Push(conversation, MessageAssistant(content))
    /\ LET call == ParseToolCall(content, next_uuid)
       IN IF call.some
          THEN /\ tool_call' = call
               /\ next_uuid' = IF call.id = Uuid(next_uuid)
                               THEN next_uuid + 1 ELSE next_uuid
               /\ pc' = "awaiting_tool"
               /\ UNCHANGED result
          ELSE /\ result' = RunOk(content)
               /\ pc' = "done"
               /\ UNCHANGED <<tool_call, next_uuid>>
    /\ UNCHANGED <<tools, max_iterations, iterations, entry, requests, executions>>
    /\ UNCHANGED outside_run

\* execute_tool returns: the result is formatted and appended as a Tool
\* message, and the loop continues.
ToolReturns ==
    /\ pc = "awaiting_tool"
    /\ LET x == RegistryExecute(tools, tool_call)
           res == ExecuteTool(x.out, tool_call)
       IN /\ executions' = Append(executions,
                 [iter |-> iterations, call |-> tool_call,
                  out |-> x.out, invoked |-> x.invoked])
          /\ conversation' = Push(conversation,
                 MessageTool(FormatToolResult(res), tool_call.id))
    /\ tool_call' = NoCall
    /\ pc' = "loop"
    /\ UNCHANGED <<tools, max_iterations, iterations, next_uuid, result,
                   entry, requests, responses>>
    /\ UNCHANGED outside_run

Next ==
    \/ RunStart
    \/ LimitReached
    \/ CallProvider
    \/ \E e \in ProviderErrors : CompletionFails(e)
    \/ \E content \in Texts : CompletionReturns(content)
    \/ ToolReturns

Spec == Init /\ [][Next]_vars

\* The awaited calls return: every step that can be taken is taken.
FairSpec == Spec /\ WF_vars(Next)

\* ------------------------------------------------------------------------
\* Vocabulary of the properties
\* ------------------------------------------------------------------------
\* The messages run has appended after the (primed) entry conversation.
Base == Len(Prime(entry, tools))
Appended == SubSeq(conversation, Base + 1, Len(conversation))
CountRole(msgs, role) == Cardinality({i \in DOMAIN msgs : msgs[i].role = role})

\* The loop recognises a tool call in the text.
Recognised(text) == ParseToolCall(text, 0).some

OkResponses == {i \in DOMAIN responses : responses[i].ok}
FailedResponses == {i \in DOMAIN responses : ~responses[i].ok}

\* The call recognised in iteration i was handed to the tool registry.
Dispatched(i) ==
    \/ pc = "awaiting_tool" /\ iterations = i
    \/ \E j \in DOMAIN executions : executions[j].iter = i
DispatchedAs(i, name) ==
    \/ pc = "awaiting_tool" /\ iterations = i /\ tool_call.name = name
    \/ \E j \in DOMAIN executions :
          executions[j].iter = i /\ executions[j].call.name = name

\* Iteration i has run to its end: run returned or is back at the loop head.
IterationOver(i) == i < iterations \/ (i = iterations /\ pc \in {"loop", "done"})

\* The text of completion i was returned by run as its final answer.
FinalAnswer(i) ==
    /\ i = Len(responses)
    /\ pc = "done"
    /\ result = RunOk(responses[i].text)
    /\ ~Dispatched(i)

AssistantOf(text) == [role |-> "assistant", content |-> text, tool_call_id |-> None]

\* ------------------------------------------------------------------------
\* C1: with max_iterations = N and a provider whose every completion holds
\* a recognised tool call, run fails with MaxIterations(N) after exactly N
\* provider calls, having appended exactly N Assistant and N Tool messages,
\* which are all still in the conversation after the failure.
\* ------------------------------------------------------------------------
AlwaysToolCall ==
    \A i \in DOMAIN responses : responses[i].ok /\ Recognised(responses[i].text)

C1_MaxIterationsAfterNToolCalls ==
    (pc = "done" /\ AlwaysToolCall) =>
        /\ result = RunErr(MaxIterationsError(max_iterations))
        /\ Len(requests) = max_iterations
        /\ Len(responses) = max_iterations
        /\ Len(Appended) = 2 * max_iterations
        /\ CountRole(Appended, "assistant") = max_iterations
        /\ CountRole(Appended, "tool") = max_iterations
        /\ \A i \in 1..max_iterations :
              /\ Appended[2 * i - 1] = AssistantOf(responses[i].text)
              /\ Appended[2 * i].role = "tool"
        /\ SubSeq(conversation, 1, Base) = Prime(entry, tools)

C1_Witness ==
    /\ pc = "done"
    /\ AlwaysToolCall
    /\ max_iterations = MaxIter
    /\ result.tag = "err"
    /\ Len(conversation) = Base + 2 * MaxIter

\* ------------------------------------------------------------------------
\* C2: every run terminates, given that the awaited calls return; it ends
\* in exactly one of Ok with the final text (no tool call detected),
\* MaxIterations, or the provider's error; and it never makes more than
\* max_iterations provider calls.
\* ------------------------------------------------------------------------
EndsOkNoToolCall ==
    /\ result.tag = "ok"
    /\ Len(responses) > 0
    /\ responses[Len(responses)].ok
    /\ ~Recognised(responses[Len(responses)].text)
    /\ result.text = responses[Len(responses)].text
EndsMaxIterations ==
    /\ result = RunErr(MaxIterationsError(max_iterations))
    /\ \A i \in DOMAIN responses : responses[i].ok
EndsProviderError ==
    /\ result.tag = "err"
    /\ result.err.kind \in ProviderErrorKinds
    /\ Len(responses) > 0
    /\ ~responses[Len(responses)].ok

ExactlyOneEnding ==
    /\ EndsOkNoToolCall \/ EndsMaxIterations \/ EndsProviderError
    /\ ~(EndsOkNoToolCall /\ EndsMaxIterations)
    /\ ~(EndsOkNoToolCall /\ EndsProviderError)
    /\ ~(EndsMaxIterations /\ EndsProviderError)

C2_RunTerminates ==
    /\ <>(pc = "done")
    /\ [](pc = "done" => ExactlyOneEnding)
    /\ [](Len(requests) <= max_iterations)
    /\ [](pc # "done" => result = NoResult)

C2_Witness ==
    /\ pc = "done"
    /\ EndsOkNoToolCall
    /\ max_iterations = MaxIter
    /\ Len(requests) = MaxIter

\* ------------------------------------------------------------------------
\* C3: a completion that holds, anywhere in prose, a fenced block whose
\* body is the object {"tool": "datetime", "arguments": {}} of the
\* documented wire format is recognised as a call of datetime and handed
\* to the tool registry.
\* ------------------------------------------------------------------------
C3_WireFormatDispatched ==
    \A i \in OkResponses :
        responses[i].text \in WireTexts => DispatchedAs(i, "datetime")

\* ------------------------------------------------------------------------
\* C4: with max_iterations >= 1, when the first completion holds no
\* recognisable tool call, run returns Ok with exactly that text after
\* exactly one provider call, having appended exactly one Assistant message
\* (the raw text) and no Tool message.
\* ------------------------------------------------------------------------
FirstHasNoToolCall ==
    /\ max_iterations >= 1
    /\ 1 \in OkResponses
    /\ ~Recognised(responses[1].text)

C4_NoToolCallReturnsFirstText ==
    FirstHasNoToolCall =>
        /\ pc = "done"
        /\ result = RunOk(responses[1].text)
        /\ Len(requests) = 1
        /\ Appended = <<AssistantOf(responses[1].text)>>
        /\ executions = <<>>

C4_Witness ==
    /\ FirstHasNoToolCall
    /\ pc = "done"
    /\ \E i \in DOMAIN responses[1].text : IsWhitespace(responses[1].text[i])

\* ------------------------------------------------------------------------
\* C5: an iteration whose completion holds exactly one well-formed fenced
\* tool-call block appends exactly one Assistant message and then exactly
\* one Tool message, adjacent and in that order, before the next provider
\* call.  A well-formed block is one in the documented wire format; the
\* blocks keyed by "name", which the code does accept, are included too.
\* ------------------------------------------------------------------------
OneBlockTexts == WireTexts \cup ToolTexts

C5_OneBlockOneAssistantOneTool ==
    \A i \in OkResponses :
        (responses[i].text \in OneBlockTexts /\ IterationOver(i)) =>
            /\ Len(Appended) >= 2 * i
            /\ Appended[2 * i - 1] = AssistantOf(responses[i].text)
            /\ Appended[2 * i].role = "tool"
            /\ i < Len(requests) => Len(requests[i + 1]) = Len(requests[i]) + 2

\* ------------------------------------------------------------------------
\* C6: when ToolRegistry::execute fails for a recognised call, run never
\* returns that error: it appends a Tool message in the failure format that
\* carries the error text and goes on to the next provider call, subject
\* only to the iteration bound.
\* ------------------------------------------------------------------------
FailedExecutions == {j \in DOMAIN executions : ~executions[j].out.ok}

FailureMessage(e) ==
    [role |-> "tool",
     content |-> <<T("[Tool '"), T(e.call.name), T("' failed]"), NL, T("Error: ")>>
                 \o Display(e.out.err),
     tool_call_id |-> e.call.id]

C6_DispatchFailureFedBack ==
    /\ result.tag = "err" => result.err.kind \notin ToolErrorKinds
    /\ \A j \in FailedExecutions :
          /\ executions[j].iter = j
          /\ Appended[2 * j] = FailureMessage(executions[j])
          /\ \/ pc = "loop" /\ iterations = j /\ result = NoResult
             \/ j < max_iterations /\ Len(requests) > j
             \/ j = max_iterations /\ result = RunErr(MaxIterationsError(max_iterations))

C6_Witness ==
    /\ \E j \in FailedExecutions :
          /\ executions[j].out.err.kind = "ToolValidation"
          /\ \E k \in DOMAIN executions[j].invoked : executions[j].invoked[k].op = "execute"
          /\ Len(requests) > j
    /\ \E j \in FailedExecutions : executions[j].out.err.kind = "ToolNotFound"

\* ------------------------------------------------------------------------
\* C7: when provider.complete fails, run returns that same error (kind and
\* message) at once, and no provider call and no tool execution follows.
\* ------------------------------------------------------------------------
C7_ProviderErrorPropagates ==
    \A i \in FailedResponses :
        /\ i = Len(responses)
        /\ pc = "done"
        /\ result = RunErr(responses[i].err)
        /\ Len(requests) = i
        /\ Len(executions) = i - 1
        /\ tool_call = NoCall

C7_Witness ==
    /\ Len(responses) = 2
    /\ 2 \in FailedResponses
    /\ responses[2].err.kind = "ProviderUnavailable"

\* ------------------------------------------------------------------------
\* C8: for a registered tool and a call that lacks a parameter the schema
\* marks required, ToolRegistry::execute fails with ToolValidation naming a
\* missing parameter, and the execute of the tool is not invoked (calculate
\* with empty arguments fails naming expression).
\* ------------------------------------------------------------------------
MissingRequired(tool, call) ==
    {Schema(tool).parameters[k].name : k \in
        {k \in DOMAIN Schema(tool).parameters :
            /\ Schema(tool).parameters[k].required
            /\ Schema(tool).parameters[k].name \notin DOMAIN call.arguments}}

LacksRequired(e) ==
    /\ e.call.name \in DOMAIN tools
    /\ MissingRequired(tools[e.call.name], e.call) # {}

C8_MissingRequiredRejected ==
    \A j \in DOMAIN executions :
        LacksRequired(executions[j]) =>
            /\ ~executions[j].out.ok
            /\ executions[j].out.err.kind = "ToolValidation"
            /\ \E p \in MissingRequired(tools[executions[j].call.name], executions[j].call) :
                  executions[j].out.err.msg = <<T("Missing required parameter: "), T(p)>>
            /\ \A k \in DOMAIN executions[j].invoked :
                  executions[j].invoked[k].op # "execute"

C8_Witness ==
    \E j \in DOMAIN executions :
        /\ LacksRequired(executions[j])
        /\ executions[j].call.name = "calculate"
        /\ DOMAIN executions[j].call.arguments = {}
        /\ executions[j].out.err.msg = <<T("Missing required parameter: "), T("expression")>>

\* ------------------------------------------------------------------------
\* C9: for a call whose name is not a key of the registry,
\* ToolRegistry::execute fails with ToolNotFound carrying that name, and no
\* validate and no execute of a registered tool is invoked.
\* ------------------------------------------------------------------------
C9_UnknownToolNotFound ==
    \A j \in DOMAIN executions :
        executions[j].call.name \notin DOMAIN tools =>
            /\ executions[j].out = Err(Error("ToolNotFound", <<T(executions[j].call.name)>>))
            /\ executions[j].invoked = <<>>

C9_Witness ==
    /\ \E j \in DOMAIN executions : executions[j].call.name = "nosuch"
    /\ \E j \in DOMAIN executions :
          executions[j].call.name = "calculate" /\ "calculate" \notin DOMAIN tools

\* ------------------------------------------------------------------------
\* C10: run never fails because of tool-call parsing.  As stated: a text
\* with no tool-call block, a text with an opening marker and no closing
\* marker, and a text whose fenced or inline span does not parse as a
\* ToolCall are each treated as holding no tool call and returned as the
\* final answer.  The first and the third case are read here as texts in
\* which neither stage finds a span that parses; the second case is the
\* unclosed opening marker, whatever else the text holds.
\* ------------------------------------------------------------------------
NoOpeningMarker(text) == Find(text, 1, ToolStart) = 0
NoClosingMarker(text) ==
    /\ ~NoOpeningMarker(text)
    /\ Find(text, Find(text, 1, ToolStart) + 1, ToolEnd) = 0
FencedBodyUnparsed(text) ==
    /\ ~NoOpeningMarker(text)
    /\ ~NoClosingMarker(text)
    /\ ~FromStr(SubSeq(text, Find(text, 1, ToolStart) + 1,
                       Find(text, Find(text, 1, ToolStart) + 1, ToolEnd) - 1)).some
FencedYieldsNothing(text) ==
    NoOpeningMarker(text) \/ NoClosingMarker(text) \/ FencedBodyUnparsed(text)

\* The brace scan yields nothing: the text lacks the literal "tool", or has
\* no { before its last }, or the span between them does not parse.
BraceScanYieldsNothing(text) ==
    \/ \A i \in DOMAIN text : text[i] # Str("tool")
    \/ Find(text, 1, {LB}) = 0
    \/ RFind(text, {RB}) <= Find(text, 1, {LB})
    \/ ~FromStr(SubSeq(text, Find(text, 1, {LB}), RFind(text, {RB}))).some

NoParseFailure == result.tag = "err" => result.err.kind \notin {"Parse", "Json"}

C10_AsStated ==
    /\ NoParseFailure
    /\ \A i \in OkResponses :
          (\/ NoClosingMarker(responses[i].text)
           \/ FencedYieldsNothing(responses[i].text)
              /\ BraceScanYieldsNothing(responses[i].text)) => FinalAnswer(i)

\* C10 as amended: run never fails because of tool-call parsing; a text in
\* which the fenced stage yields nothing (no opening marker, no closing
\* marker after it, or a body that does not parse) and in which the brace
\* scan yields nothing either is treated as holding no tool call and is
\* returned as the final answer.
C10_UnparsedTextIsFinalAnswer ==
    /\ NoParseFailure
    /\ \A i \in OkResponses :
          (FencedYieldsNothing(responses[i].text)
           /\ BraceScanYieldsNothing(responses[i].text)) => FinalAnswer(i)

C10_Witness ==
    /\ pc = "done"
    /\ result.tag = "ok"
    /\ NoClosingMarker(result.text)
    /\ FinalAnswer(Len(responses))

\* ------------------------------------------------------------------------
\* C11: during run the conversation is append-only apart from the one
\* optional prepend of the system prompt: no message that is in the
\* conversation is later removed, modified or reordered, whatever the
\* outcome (run never truncates).
\* ------------------------------------------------------------------------
IsPrefix(a, b) == Len(a) <= Len(b) /\ SubSeq(b, 1, Len(a)) = a

SystemPromptPrepended ==
    /\ pc = "entry"
    /\ Len(conversation') = Len(conversation) + 1
    /\ conversation'[1].role = "system"
    /\ Tail(conversation') = conversation

C11_ConversationAppendOnly ==
    [][IsPrefix(conversation, conversation') \/ SystemPromptPrepended]_vars

C11_Witness ==
    /\ pc = "done"
    /\ entry # <<>>
    /\ entry[1].role # "system"
    /\ Len(conversation) >= Len(entry) + 5

\* ------------------------------------------------------------------------
\* C12: the system prompt is primed at most once per run and only before
\* the first provider call: when the first message is not a System message
\* (or there is none) exactly one System message is inserted at index 0;
\* when it is, nothing is inserted and it is left unchanged; so every
\* provider.complete call receives a list that starts with a System message.
\* ------------------------------------------------------------------------
EntryStartsWithSystem == entry # <<>> /\ entry[1].role = "system"

C12_SystemPromptPrimedOnce ==
    /\ \A k \in DOMAIN requests :
          Len(requests[k]) >= 1 /\ requests[k][1].role = "system"
    /\ pc = "entry" => requests = <<>> /\ conversation = entry
    /\ pc # "entry" =>
          IF EntryStartsWithSystem
          THEN /\ SubSeq(conversation, 1, Len(entry)) = entry
               /\ CountRole(conversation, "system") = CountRole(entry, "system")
          ELSE /\ conversation[1].role = "system"
               /\ SubSeq(conversation, 2, Len(entry) + 1) = entry
               /\ CountRole(conversation, "system") = CountRole(entry, "system") + 1

C12_Witness ==
    /\ pc = "done"
    /\ Len(requests) >= 2
    /\ entry # <<>>
    /\ entry[1].role = "user"
    /\ CountRole(entry, "system") = 1

\* ------------------------------------------------------------------------
\* C29: every successful provider.complete call of a run is recorded before
\* its text is interpreted: the raw text is appended unchanged as one
\* Assistant message whether or not a tool call is then detected, so at
\* every point the Assistant messages appended by the run are, in order,
\* the texts of the successful calls.
\* ------------------------------------------------------------------------
IsAssistant(m) == m.role = "assistant"
IsOk(r) == r.ok

C29_EveryCompletionRecorded ==
    LET recorded == SelectSeq(Appended, IsAssistant)
        returned == SelectSeq(responses, IsOk)
    IN /\ Len(recorded) = Len(returned)
       /\ \A k \in DOMAIN returned : recorded[k] = AssistantOf(returned[k].text)
       /\ \A i \in OkResponses :
             (Dispatched(i) \/ FinalAnswer(i)) => Len(recorded) >= i

C29_Witness ==
    /\ pc = "done"
    /\ Len(responses) = 3
    /\ OkResponses = {1, 2, 3}
    /\ Recognised(responses[1].text)
    /\ Recognised(responses[2].text)
    /\ FinalAnswer(3)

\* ------------------------------------------------------------------------
\* C30: a run is one strictly sequential chain: the (k+1)-th
\* provider.complete call is issued only after the k-th tool result has
\* been appended, and the list it receives is the list of the k-th call
\* followed by exactly the k-th Assistant message and the k-th Tool
\* message; at most one provider call or tool execution is outstanding at
\* any time.
\* ------------------------------------------------------------------------
OutstandingCompletions == Len(requests) - Len(responses)
OutstandingExecutions ==
    Cardinality({i \in OkResponses : Recognised(responses[i].text)})
        - Len(executions)

C30_StrictlySequential ==
    /\ \A k \in DOMAIN requests : k + 1 \in DOMAIN requests =>
          /\ k \in OkResponses
          /\ k \in DOMAIN executions
          /\ executions[k].iter = k
          /\ Len(requests[k + 1]) = Len(requests[k]) + 2
          /\ SubSeq(requests[k + 1], 1, Len(requests[k])) = requests[k]
          /\ requests[k + 1][Len(requests[k]) + 1] = AssistantOf(responses[k].text)
          /\ requests[k + 1][Len(requests[k]) + 2].role = "tool"
          /\ requests[k + 1][Len(requests[k]) + 2].tool_call_id = executions[k].call.id
    /\ OutstandingCompletions \in {0, 1}
    /\ OutstandingExecutions \in {0, 1}
    /\ OutstandingCompletions + OutstandingExecutions <= 1

C30_Witness ==
    /\ pc = "awaiting_completion"
    /\ Len(requests) = 3
    /\ Len(executions) = 2
    /\ OutstandingCompletions = 1

\* ------------------------------------------------------------------------
\* C31: within one run each recognised tool call is dispatched exactly
\* once: it causes exactly one ToolRegistry::execute invocation and exactly
\* one Tool message, so the number of tool executions never exceeds the
\* number of Assistant messages appended by the run nor max_iterations.
\* ------------------------------------------------------------------------
ExecutionsOf(i) == {j \in DOMAIN executions : executions[j].iter = i}

ToolMessagesOf(i) ==
    {k \in DOMAIN Appended :
        /\ Appended[k].role = "tool"
        /\ CountRole(SubSeq(Appended, 1, k), "assistant") = i}

C31_EachCallDispatchedOnce ==
    /\ \A i \in DOMAIN responses :
          IF responses[i].ok /\ Recognised(responses[i].text) /\ IterationOver(i)
          THEN /\ Cardinality(ExecutionsOf(i)) = 1
               /\ Cardinality(ToolMessagesOf(i)) = 1
               /\ \A j \in ExecutionsOf(i) :
                     /\ executions[j].call.name = ParseToolCall(responses[i].text, 0).name
                     /\ executions[j].call.arguments
                            = ParseToolCall(responses[i].text, 0).arguments
          ELSE /\ ExecutionsOf(i) = {}
               /\ ToolMessagesOf(i) = {}
    /\ \A j \in DOMAIN executions : executions[j].iter \in DOMAIN responses
    /\ CountRole(Appended, "tool") = Len(executions)
    /\ Len(executions) <= CountRole(Appended, "assistant")
    /\ Len(executions) <= max_iterations

C31_Witness ==
    /\ pc = "done"
    /\ max_iterations = MaxIter
    /\ Len(executions) = MaxIter
    /\ CountRole(Appended, "tool") = MaxIter
    /\ CountRole(Appended, "assistant") = MaxIter

\* ------------------------------------------------------------------------
\* C32: tool-call detection is an ordered two-stage lexer: the brace-scan
\* fallback decides if and only if the fenced stage yields nothing (no
\* opening marker, no closing marker after it, or a body between the first
\* opening marker and the first closing marker after it that does not
\* parse); a parseable fenced block takes precedence over inline JSON
\* elsewhere in the text.  The stages differ in what they return: the call
\* of the fenced stage always carries an id, the call of the brace scan
\* carries the id of the JSON or none.
\* ------------------------------------------------------------------------
\* What each stage finds in a text, taken on its own.
FencedCall(text) ==
    FromStr(SubSeq(text, Find(text, 1, ToolStart) + 1,
                   Find(text, Find(text, 1, ToolStart) + 1, ToolEnd) - 1))
BraceCall(text) == FromStr(SubSeq(text, Find(text, 1, {LB}), RFind(text, {RB})))

\* The call run took from completion i.
CallOf(i) ==
    IF pc = "awaiting_tool" /\ iterations = i THEN tool_call
    ELSE IF ExecutionsOf(i) # {}
         THEN executions[CHOOSE j \in ExecutionsOf(i) : TRUE].call
         ELSE NoCall

C32_FencedThenBraceScan ==
    \A i \in OkResponses :
        LET text == responses[i].text
        IN IF ~FencedYieldsNothing(text)
           THEN /\ CallOf(i).some
                /\ CallOf(i).name = FencedCall(text).name
                /\ CallOf(i).arguments = FencedCall(text).arguments
                /\ CallOf(i).id.some
                /\ FencedCall(text).id.some => CallOf(i).id = FencedCall(text).id
           ELSE IF ~BraceScanYieldsNothing(text)
                THEN CallOf(i) = BraceCall(text)
                ELSE CallOf(i) = NoCall /\ FinalAnswer(i)

\* Both stages would find a call in the first text and the fenced stage
\* decided; the fenced body of the second does not parse and the brace
\* scan decided.
C32_Witness ==
    /\ Len(responses) >= 2
    /\ responses[1].ok
    /\ ~FencedYieldsNothing(responses[1].text)
    /\ ~BraceScanYieldsNothing(responses[1].text)
    /\ BraceCall(responses[1].text).id = None
    /\ executions[1].call.id = Uuid(1)
    /\ responses[2].ok
    /\ FencedBodyUnparsed(responses[2].text)
    /\ CallOf(2) = BraceCall(responses[2].text)
    /\ CallOf(2).some

\* ------------------------------------------------------------------------
\* C33: the Tool message appended for a dispatched call is formatted by
\* outcome: it starts with [Tool '<name>' returned] if and only if the
\* registry returned a result whose success flag is true, and with
\* [Tool '<name>' failed] otherwise, that is both for a dispatch error and
\* for a tool that returned a result with success = false.
\* ------------------------------------------------------------------------
ReturnedSuccess(e) == e.out.ok /\ e.out.result.success

\* The name in the heading: the result's, or the call's after an error.
HeadingName(e) == IF e.out.ok THEN e.out.result.name ELSE e.call.name

Heading(e, outcome) == <<T("[Tool '"), T(HeadingName(e)), T(outcome), NL>>

StartsWith(content, head) ==
    Len(content) >= Len(head) /\ SubSeq(content, 1, Len(head)) = head

\* The Tool message that answers execution j.
ToolMessageOf(j) == Appended[2 * j]

C33_ToolMessageFormattedByOutcome ==
    \A j \in DOMAIN executions :
        /\ ToolMessageOf(j).role = "tool"
        /\ StartsWith(ToolMessageOf(j).content, Heading(executions[j], "' returned]"))
               <=> ReturnedSuccess(executions[j])
        /\ StartsWith(ToolMessageOf(j).content, Heading(executions[j], "' failed]"))
               <=> ~ReturnedSuccess(executions[j])

C33_Witness ==
    /\ \E j \in DOMAIN executions : ReturnedSuccess(executions[j])
    /\ \E j \in DOMAIN executions :
          executions[j].out.ok /\ ~executions[j].out.result.success
    /\ \E j \in DOMAIN executions : ~executions[j].out.ok

\* ------------------------------------------------------------------------
\* C34: the default validate(call) checks presence only: it succeeds if
\* and only if every schema parameter marked required is a key of
\* call.arguments, whatever JSON type or value is bound to it (null
\* included) and whatever extra keys are present.
\* ------------------------------------------------------------------------
ValidateCalled(e) == \E k \in DOMAIN e.invoked : e.invoked[k].op = "validate"

\* validate succeeded: the registry went on to the tool's execute.
ValidatePassed(e) == \E k \in DOMAIN e.invoked : e.invoked[k].op = "execute"

C34_ValidateChecksPresenceOnly ==
    \A j \in DOMAIN executions :
        executions[j].call.name \in DOMAIN tools =>
            /\ ValidateCalled(executions[j])
            /\ ValidatePassed(executions[j])
                  <=> MissingRequired(tools[executions[j].call.name],
                                      executions[j].call) = {}
            /\ ~ValidatePassed(executions[j]) =>
                  /\ ~executions[j].out.ok
                  /\ executions[j].out.err.kind = "ToolValidation"

\* A required parameter bound to null next to an unknown key passes, and
\* so does a call of a tool without required parameters.
C34_Witness ==
    /\ \E j \in DOMAIN executions :
          /\ executions[j].call.name = "calculate"
          /\ DOMAIN executions[j].call.arguments = {"expression", "extra"}
          /\ executions[j].call.arguments["expression"] = NullValue
          /\ ValidatePassed(executions[j])
    /\ \E j \in DOMAIN executions :
          /\ executions[j].call.name = "calculate"
          /\ DOMAIN executions[j].call.arguments = {"format"}
          /\ ~ValidatePassed(executions[j])

\* ------------------------------------------------------------------------
\* C35: every Tool message appended by run carries in its metadata a
\* tool_call_id equal to the id of the call it answers: an id supplied in
\* the model's JSON is preserved, and when none was supplied a fresh unique
\* id is generated for the call, whichever detection stage (fenced block
\* or brace scan) recognised it.
\* ------------------------------------------------------------------------
\* The id the JSON of completion i supplies, if any.
SuppliedId(i) ==
    IF ~FencedYieldsNothing(responses[i].text)
    THEN FencedCall(responses[i].text).id
    ELSE BraceCall(responses[i].text).id

C36_FailedCompletionLeavesConversation ==
    \A k \in FailedResponses :
        /\ conversation = requests[k]
        /\ SubSeq(conversation, 1, Base) = Prime(entry, tools)
        /\ conversation[1].role = "system"
        /\ Len(Appended) = 2 * (k - 1)
        /\ \A m \in 1..(k - 1) :
              /\ Appended[2 * m - 1] = AssistantOf(responses[m].text)
              /\ Appended[2 * m].role = "tool"
              /\ Appended[2 * m].tool_call_id = executions[m].call.id

C36_Witness ==
    /\ Len(responses) = 3
    /\ 3 \in FailedResponses
    /\ Len(Appended) = 4
    /\ conversation = requests[3]
    /\ pc = "done"

\* ========================================================================
\* The provider chain (provider.rs)
\* ========================================================================
MaxProviders == 3
MaxCallers == 2
MaxOps == 5

\* ProviderStrategy
Strategies == {"Single", "Failover", "RoundRobin", "ModelRouted"}

\* A boxed provider, named by the position it was registered at.
Backend(i) == [backend |-> i]

\* ProviderChain::new: the provider lists a chain is built from.
Chains == {[i \in 1..n |-> Backend(i - 1)] : n \in 0..MaxProviders}

Callers == 1..MaxCallers

\* Option<&dyn LlmProvider>, and the panic an index or a remainder raises.
NoProvider == [tag |-> "none", provider |-> Backend(-1)]
SomeProvider(p) == [tag |-> "some", provider |-> p]
Panic == [tag |-> "panic", provider |-> Backend(-1)]

\* A variant of the remainder that stays on the last provider.
RemClamped(idx, n) ==
    IF n = 0 THEN -1 ELSE IF idx < n THEN idx ELSE n - 1

\* idx % self.providers.len(); a zero divisor panics (-1 here).
Rem(idx, n) == IF n = 0 THEN -1 ELSE idx % n

\* self.providers[idx].as_ref(); an index out of bounds panics.
Get(provs, idx) ==
    IF idx < 0 \/ idx >= Len(provs) THEN Panic ELSE SomeProvider(provs[idx + 1])

\* self.providers.first().map(..)
First(provs) == IF Len(provs) = 0 THEN NoProvider ELSE SomeProvider(provs[1])

\* A variant without the early return.
ChainIsEmptyNever(provs) == FALSE

\* self.providers.is_empty()
ChainIsEmpty(provs) == Len(provs) = 0

\* current_index.fetch_add(1, SeqCst): the new value of the cursor. The
\* counter stays far below the width of usize in every run checked.
FetchAdd(cur) == cur + 1

\* A variant where RoundRobin loads the cursor without incrementing it.
ArmRoundRobinLoads(strat) ==
    IF strat = "Single" THEN "first" ELSE "load"

\* A variant where Failover and ModelRouted increment the cursor as well.
ArmFailoverAdvances(strat) ==
    IF strat = "Single" THEN "first" ELSE "fetch_add"

\* A variant where Single reads the cursor.
ArmSingleLoads(strat) ==
    IF strat = "RoundRobin" THEN "fetch_add" ELSE "load"

\* The match on self.strategy in next_provider.
Arm(strat) ==
    CASE strat = "Single" -> "first"
      [] strat = "RoundRobin" -> "fetch_add"
      [] strat \in {"Failover", "ModelRouted"} -> "load"

NoIndex == -1

\* ProviderChain::next_provider: what is returned, the cursor value the
\* call observed (if it read the cursor) and the cursor it leaves.
NextProvider(provs, strat, cur) ==
    IF ChainIsEmpty(provs)
    THEN [ret |-> NoProvider, observed |-> NoIndex, cursor |-> cur]
    ELSE CASE Arm(strat) = "first" ->
                [ret |-> First(provs), observed |-> NoIndex, cursor |-> cur]
           [] Arm(strat) = "fetch_add" ->
                [ret |-> Get(provs, Rem(cur, Len(provs))),
                 observed |-> cur, cursor |-> FetchAdd(cur)]
           [] Arm(strat) = "load" ->
                [ret |-> Get(provs, Rem(cur, Len(provs))),
                 observed |-> cur, cursor |-> cur]

IdleCaller ==
    [pc |-> "idle", ret |-> NoProvider, observed |-> NoIndex, rank |-> 0, adv |-> 0]

\* The calls made on the chain so far.
Ops == fetches + advances

ChainInit ==
    /\ providers \in Chains
    /\ strategy \in Strategies
    /\ current_index = 0
    /\ callers = [c \in Callers |-> IdleCaller]
    /\ selections = <<>>
    /\ fetches = 0
    /\ advances = 0
    /\ overlap = FALSE
    /\ conversation = <<>>
    /\ NoRun
    /\ NoConversationCall
    /\ NoRegistration
    /\ NoBuilder
    /\ NoOllama
    /\ NoLicenseStore
    /\ NoSessionStore
    /\ NoAllocation
    /\ NoLicenseClients

\* A caller enters next_provider and runs it up to and including its one
\* access to the shared cursor; what is left is local to the caller.
NextProviderEnter(c) ==
    /\ callers[c].pc = "idle"
    /\ Ops < MaxOps
    /\ LET sel == NextProvider(providers, strategy, current_index)
       IN /\ current_index' = sel.cursor
          /\ callers' = [callers EXCEPT ![c] =
                            [pc |-> "selected", ret |-> sel.ret,
                             observed |-> sel.observed,
                             rank |-> fetches, adv |-> advances]]
    /\ fetches' = fetches + 1
    /\ overlap' = (overlap \/ \E d \in Callers \ {c} : callers[d].pc # "idle")
    /\ UNCHANGED <<providers, strategy, selections, advances>>
    /\ UNCHANGED outside_chain

\* next_provider returns to the caller.
NextProviderReturn(c) ==
    /\ callers[c].pc = "selected"
    /\ selections' = Append(selections,
                            [caller |-> c, ret |-> callers[c].ret,
                             observed |-> callers[c].observed,
                             rank |-> callers[c].rank, adv |-> callers[c].adv])
    /\ callers' = [callers EXCEPT ![c] = IdleCaller]
    /\ UNCHANGED <<providers, strategy, current_index, fetches, advances, overlap>>
    /\ UNCHANGED outside_chain

\* ProviderChain::advance
Advance ==
    /\ Ops < MaxOps
    /\ current_index' = FetchAdd(current_index)
    /\ advances' = advances + 1
    /\ UNCHANGED <<providers, strategy, callers, selections, fetches, overlap>>
    /\ UNCHANGED outside_chain

ChainNext ==
    \/ \E c \in Callers : NextProviderEnter(c)
    \/ \E c \in Callers : NextProviderReturn(c)
    \/ Advance

ChainSpec == ChainInit /\ [][ChainNext]_vars

\* ------------------------------------------------------------------------
\* Vocabulary of the chain properties
\* ------------------------------------------------------------------------
N == Len(providers)

\* The provider registered at a 0-based position.
Registered(i) == SomeProvider(providers[i + 1])

\* The calls in flight, past their access to the cursor.
InFlight ==
    {[caller |-> c, ret |-> callers[c].ret, observed |-> callers[c].observed,
      rank |-> callers[c].rank, adv |-> callers[c].adv] :
        c \in {d \in Callers : callers[d].pc = "selected"}}

Returned == {selections[k] : k \in DOMAIN selections}

Fetched == Returned \cup InFlight

\* ------------------------------------------------------------------------
\* C13: a chain of N >= 1 providers under RoundRobin on which only
\* next_provider is called, one call after the other: the k-th selection
\* (from 0) returns providers[k mod N]; with N = 3 the first four
\* selections are providers 0, 1, 2, 0.
\* ------------------------------------------------------------------------
C13_RoundRobinSequential ==
    (strategy = "RoundRobin" /\ N >= 1 /\ advances = 0 /\ ~overlap) =>
        \A k \in DOMAIN selections : selections[k].ret = Registered((k - 1) % N)

C13_Witness ==
    /\ strategy = "RoundRobin"
    /\ N = 3
    /\ advances = 0
    /\ ~overlap
    /\ [k \in DOMAIN selections |-> selections[k].ret.provider.backend] = <<0, 1, 2, 0>>

\* ------------------------------------------------------------------------
\* C14: under RoundRobin, however concurrent next_provider calls
\* interleave, each call observes a cursor value no other call observes;
\* M calls starting from cursor c observe exactly c, c+1, .., c+M-1 and
\* return providers[(c+i) mod N]; fewer than N+1 such calls never return
\* the same provider twice.
\* ------------------------------------------------------------------------
C14_RoundRobinConcurrent ==
    (strategy = "RoundRobin" /\ N >= 1) =>
        /\ \A x \in Fetched : x.observed = x.rank + x.adv
        /\ \A x, y \in Fetched : x.rank # y.rank => x.observed # y.observed
        /\ \A x \in Fetched : x.ret = Registered(x.observed % N)
        /\ advances = 0 => {x.observed : x \in Fetched} = 0..(fetches - 1)
        /\ \A x, y \in Fetched :
              (x.rank < y.rank /\ y.rank - x.rank < N /\ x.adv = y.adv)
                  => x.ret # y.ret

C14_Witness ==
    /\ strategy = "RoundRobin"
    /\ N >= 2
    /\ overlap
    /\ Len(selections) >= 2
    /\ selections[1].rank > selections[2].rank
    /\ selections[1].adv = selections[2].adv

C16_EmptyChainSelectsNone ==
    N = 0 =>
        /\ \A x \in Fetched : x.ret = NoProvider
        /\ current_index = advances

C16_Witness ==
    /\ N = 0
    /\ strategy = "RoundRobin"
    /\ advances >= 1
    /\ Len(selections) >= 2
    /\ selections[2].adv >= 1

\* ------------------------------------------------------------------------
\* C17: under Single with a non-empty list next_provider always returns
\* the first provider, whatever calls preceded it.
\* ------------------------------------------------------------------------
C17_SingleSelectsFirst ==
    (strategy = "Single" /\ N >= 1) =>
        \A x \in Fetched : x.ret = Registered(0)

C17_Witness ==
    /\ strategy = "Single"
    /\ N >= 2
    /\ overlap
    /\ Len(selections) >= 2
    /\ selections[2].adv >= 2

\* ========================================================================
\* The conversation utilities (message.rs)
\* ========================================================================
MaxMsgs == 4

\* The bytes of the UTF-8 encoding of a character.
Utf8Len(ch) ==
    CASE ch = "a" -> 1
      [] ch = "e-acute" -> 2
      [] ch = "euro" -> 3
      [] ch = "grin" -> 4

\* String::len: the length in bytes.
RECURSIVE ByteLen(_)
ByteLen(content) ==
    IF content = <<>> THEN 0
    ELSE Utf8Len(Head(content)) + ByteLen(Tail(content))

\* A variant without the per-message overhead.
MessageEstimateTokensNoOverhead(m) == ByteLen(m.content) \div 4

\* Message::estimate_tokens. The u32 results stay far below 2^32 in every
\* run checked.
MessageEstimateTokens(m) == (ByteLen(m.content) \div 4) + 4

\* Conversation::estimate_tokens
RECURSIVE ConversationEstimateTokens(_)
ConversationEstimateTokens(messages) ==
    IF messages = <<>> THEN 0
    ELSE MessageEstimateTokens(Head(messages))
            + ConversationEstimateTokens(Tail(messages))

\* default_max_context
DefaultMaxContext == 8192

\* A variant that evicts the first message whatever its role.
PositionAny(messages) == IF messages = <<>> THEN NoIndex ELSE 0

\* messages.iter().position(|m| m.role != Role::System), from 0.
PositionNonSystem(messages) ==
    LET found == {i \in DOMAIN messages : messages[i].role # "system"}
    IN IF found = {} THEN NoIndex
       ELSE (CHOOSE i \in found : \A j \in found : i <= j) - 1

\* Vec::remove at a position counted from 0.
Remove(messages, pos) ==
    SubSeq(messages, 1, pos) \o SubSeq(messages, pos + 2, Len(messages))

\* A variant of the loop condition that tests the budget only.
LoopConditionBudgetOnly(messages, budget) ==
    ConversationEstimateTokens(messages) > budget

\* The condition of the while loop of truncate_to_fit.
LoopCondition(messages, budget) ==
    ConversationEstimateTokens(messages) > budget /\ Len(messages) > 2

\* One pass of the loop of truncate_to_fit: the position it removes, or
\* NoIndex when the loop ends (condition false, or one of the breaks).
Victim(messages, budget) ==
    IF LoopCondition(messages, budget)
    THEN LET pos == PositionNonSystem(messages)
         IN IF pos # NoIndex /\ pos < Len(messages) - 1 THEN pos ELSE NoIndex
    ELSE NoIndex

\* Message contents: empty, and three characters of eight bytes.
Contents == {<<>>, <<"a", "euro", "grin">>}

\* The messages pushed: System and User ones of either content, and an
\* Assistant one.
ConvMessages ==
    {Message(role, content) : role \in {"system", "user"}, content \in Contents}
        \cup {MessageAssistant(<<"a", "euro", "grin">>)}

\* The budgets a serialized conversation states: one the pushed messages
\* can exceed.
Budgets == {13}

Built(by, messages, budget) ==
    [by |-> by, messages |-> messages, max_context_tokens |-> budget]

\* Conversation::new: the derived Default, every field at its type's
\* default.
ConversationNew == Built("new", <<>>, 0)

\* Conversation::with_system_prompt
WithSystemPrompt(prompt) ==
    Built("with_system_prompt",
          Push(ConversationNew.messages, MessageSystem(prompt)),
          ConversationNew.max_context_tokens)

\* Deserialize: a missing max_context_tokens is default_max_context().
FromJson(messages, budget) ==
    Built("from_json", messages,
          IF budget.some THEN budget.value ELSE DefaultMaxContext)

Constructed ==
    {ConversationNew, WithSystemPrompt(<<"a", "euro", "grin">>),
     FromJson(<<>>, [some |-> FALSE, value |-> 0])}
        \cup {FromJson(<<>>, [some |-> TRUE, value |-> b]) : b \in Budgets}

NoEstimate == [some |-> FALSE, value |-> 0, of |-> <<>>]

ConvInit ==
    /\ \E c \in Constructed :
          /\ conversation = c.messages
          /\ max_context_tokens = c.max_context_tokens
          /\ built_by = c.by
    /\ op = "idle"
    /\ before = <<>>
    /\ estimate = NoEstimate
    /\ NoRun
    /\ NoChain
    /\ NoRegistration
    /\ NoBuilder
    /\ NoOllama
    /\ NoLicenseStore
    /\ NoSessionStore
    /\ NoAllocation
    /\ NoLicenseClients

\* Conversation::push
ConvPush(m) ==
    /\ op = "idle"
    /\ Len(conversation) < MaxMsgs
    /\ conversation' = Push(conversation, m)
    /\ UNCHANGED conv_vars
    /\ UNCHANGED outside_conv

\* Conversation::estimate_tokens, called between the calls that mutate.
EstimateTokens ==
    /\ op \in {"idle", "done"}
    /\ estimate' = [some |-> TRUE,
                    value |-> ConversationEstimateTokens(conversation),
                    of |-> conversation]
    /\ UNCHANGED <<conversation, max_context_tokens, op, before, built_by>>
    /\ UNCHANGED outside_conv

\* Conversation::truncate_to_fit is called.
TruncateBegin ==
    /\ op = "idle"
    /\ op' = "truncating"
    /\ before' = conversation
    /\ UNCHANGED <<conversation, max_context_tokens, estimate, built_by>>
    /\ UNCHANGED outside_conv

\* A pass of the loop that removes a message.
TruncateRemove ==
    /\ op = "truncating"
    /\ Victim(conversation, max_context_tokens) # NoIndex
    /\ conversation' = Remove(conversation, Victim(conversation, max_context_tokens))
    /\ UNCHANGED conv_vars
    /\ UNCHANGED outside_conv

\* The loop ends and truncate_to_fit returns.
TruncateReturn ==
    /\ op = "truncating"
    /\ Victim(conversation, max_context_tokens) = NoIndex
    /\ op' = "done"
    /\ UNCHANGED <<conversation, max_context_tokens, before, estimate,
                   built_by>>
    /\ UNCHANGED outside_conv

ConvNext ==
    \/ \E m \in ConvMessages : ConvPush(m)
    \/ EstimateTokens
    \/ TruncateBegin
    \/ TruncateRemove
    \/ TruncateReturn

ConvSpec == ConvInit /\ [][ConvNext]_vars

\* truncate_to_fit is a synchronous loop: once called, its passes run.
ConvFairSpec == ConvSpec /\ WF_vars(TruncateRemove \/ TruncateReturn)

\* ------------------------------------------------------------------------
\* Vocabulary of the conversation properties
\* ------------------------------------------------------------------------
IsSystem(m) == m.role = "system"

Last(messages) == messages[Len(messages)]

RECURSIVE IsSubsequence(_, _)
IsSubsequence(a, b) ==
    IF a = <<>> THEN TRUE
    ELSE IF b = <<>> THEN FALSE
    ELSE IF Head(a) = Head(b) THEN IsSubsequence(Tail(a), Tail(b))
    ELSE IsSubsequence(a, Tail(b))

\* The estimate as the claims state it: per message, the byte length of
\* the content divided by four, rounded down, plus four.
RECURSIVE ClaimedTokens(_)
ClaimedTokens(messages) ==
    IF messages = <<>> THEN 0
    ELSE (ByteLen(Head(messages).content) \div 4) + 4 + ClaimedTokens(Tail(messages))

\* The positions of the messages that are neither System nor final.
Evictable(messages) ==
    {i \in 1..(Len(messages) - 1) : ~IsSystem(messages[i])}

WithinBudget(messages) == ClaimedTokens(messages) <= max_context_tokens

\* The three conditions under which truncation stops.
MustStop(messages) ==
    \/ WithinBudget(messages)
    \/ Len(messages) <= 2
    \/ Evictable(messages) = {}

\* ------------------------------------------------------------------------
\* C18: truncate_to_fit never removes the System message at index 0,
\* never removes the last message, removes no System-role message, and
\* keeps the messages that remain in their relative order.
\* ------------------------------------------------------------------------
C18_TruncateKeepsSystemAndLast ==
    op \in {"truncating", "done"} =>
        /\ (before # <<>> /\ IsSystem(before[1])) =>
              (conversation # <<>> /\ conversation[1] = before[1])
        /\ before # <<>> =>
              (conversation # <<>> /\ Last(conversation) = Last(before))
        /\ SelectSeq(conversation, IsSystem) = SelectSeq(before, IsSystem)
        /\ IsSubsequence(conversation, before)

C18_Witness ==
    /\ op = "done"
    /\ Len(before) = 4
    /\ IsSystem(before[1])
    /\ IsSystem(before[3])
    /\ Len(conversation) = 3
    /\ ~WithinBudget(conversation)

\* ------------------------------------------------------------------------
\* C19: truncate_to_fit terminates and evicts oldest first: each pass
\* removes the earliest message that is neither System nor final; it stops
\* exactly when the estimate is within the budget, or at most two messages
\* remain, or every message but the final one is System; a conversation
\* already within the budget or of at most two messages is left unchanged
\* (possibly still over the budget).
\* ------------------------------------------------------------------------
C19_TruncateTerminatesOldestFirst ==
    /\ (op = "truncating") ~> (op = "done")
    /\ [](op = "done" => MustStop(conversation))
    /\ [](op = "done" /\ (WithinBudget(before) \/ Len(before) <= 2)
              => conversation = before)
    /\ [][(op = "truncating" /\ conversation' # conversation) =>
              /\ ~MustStop(conversation)
              /\ \E p \in Evictable(conversation) :
                    /\ \A q \in Evictable(conversation) : p <= q
                    /\ conversation' = Remove(conversation, p - 1)]_vars
    /\ [][(op = "truncating" /\ op' = "done") =>
              (MustStop(conversation) /\ conversation' = conversation)]_vars

C19_Witness ==
    /\ op = "done"
    /\ Len(before) = 4
    /\ Len(conversation) = 3
    /\ ~WithinBudget(before)
    /\ WithinBudget(conversation)
    /\ conversation = Tail(before)

\* ------------------------------------------------------------------------
\* C20: estimate_tokens is pure: it returns the sum over the messages of
\* (byte length of the content div 4) + 4, changes no state, returns the
\* same value when called twice with no mutation in between, and never
\* decreases when a message is pushed.
\* ------------------------------------------------------------------------
C20_EstimateTokensPure ==
    /\ [](estimate.some => estimate.value = ClaimedTokens(estimate.of))
    /\ []((estimate.some /\ estimate.of = conversation)
              => ConversationEstimateTokens(conversation) = estimate.value)
    /\ [][estimate' # estimate =>
              /\ estimate'.of = conversation
              /\ UNCHANGED <<conversation, max_context_tokens, op, before>>]_vars
    /\ [][(op = "idle" /\ op' = "idle" /\ conversation' # conversation) =>
              /\ IsPrefix(conversation, conversation')
              /\ ConversationEstimateTokens(conversation')
                    >= ConversationEstimateTokens(conversation)]_vars

C20_Witness ==
    /\ op = "idle"
    /\ estimate.some
    /\ Len(estimate.of) = 2
    /\ estimate.value = 10
    /\ Len(conversation) = 3
    /\ ConversationEstimateTokens(conversation) = 16

\* ------------------------------------------------------------------------
\* C37: a Conversation built with Conversation::new() or
\* Conversation::with_system_prompt() has the same context budget, 8192
\* estimated tokens, as one deserialised without an explicit budget, so
\* truncate_to_fit removes nothing from such a conversation while its
\* estimated total is at most 8192.
\* ------------------------------------------------------------------------
BuiltInCode == built_by \in {"new", "with_system_prompt"}

C37_ConstructorsUseDefaultBudget ==
    BuiltInCode =>
        /\ max_context_tokens = DefaultMaxContext
        /\ (/\ op \in {"truncating", "done"}
            /\ ConversationEstimateTokens(before) <= DefaultMaxContext)
               => conversation = before

\* ========================================================================
\* Building a tool registry (tool.rs)
\* ========================================================================
MaxRegs == 3
MaxRenders == 2

\* A tool: one of several implementations whose schema carries a name.
RegTool(impl, name) == [impl |-> impl, name |-> name]

\* The tools registered: two implementations under one name, and one
\* under each of two more.
RegTools ==
    {RegTool(1, "datetime"), RegTool(2, "datetime"),
     RegTool(1, "calculate"), RegTool(1, "price")}

\* tool.schema().name
SchemaName(tool) == tool.name

\* A variant of the insertion that keeps the tool already there.
InsertIfAbsent(reg, tool) ==
    [n \in DOMAIN reg \cup {SchemaName(tool)} |->
        IF n \in DOMAIN reg THEN reg[n] ELSE tool]

\* self.tools.insert(schema.name.clone(), ..): HashMap::insert replaces
\* the value of a key that is present.
Insert(reg, tool) ==
    [n \in DOMAIN reg \cup {SchemaName(tool)} |->
        IF n = SchemaName(tool) THEN tool ELSE reg[n]]

\* ToolRegistry::len
RegistryLen(reg) == Cardinality(DOMAIN reg)

\* The orders a HashMap of these keys may iterate in.
Orders(names) ==
    {q \in [1..Cardinality(names) -> names] :
        \A n \in names : \E i \in DOMAIN q : q[i] = n}

\* A variant where iterating moves the first entry to the end.
AfterValuesRotated(ord) ==
    IF ord = <<>> THEN ord ELSE Append(Tail(ord), Head(ord))

\* self.tools.values() borrows the map immutably: the map iterates in the
\* same order afterwards.
AfterValues(ord) == ord

\* ToolRegistry::schemas: the registered tools in iteration order.
Schemas(reg, ord) == [i \in DOMAIN ord |-> reg[ord[i]]]

\* ToolRegistry::generate_prompt_section over a map that iterates in the
\* given order: the heading, then the name and description of each tool.
RECURSIVE PromptEntries(_)
PromptEntries(schemas) ==
    IF schemas = <<>> THEN <<>>
    ELSE <<T("### "), T(Head(schemas).name), NL,
           [k |-> "description", v |-> Head(schemas).impl], NL, NL>>
            \o PromptEntries(Tail(schemas))

PromptSection(reg, ord) ==
    <<T("## Available Tools"), NL, NL>> \o PromptEntries(Schemas(reg, ord))

RegInit ==
    /\ registry = <<>>
    /\ order = <<>>
    /\ registrations = <<>>
    /\ renders = <<>>
    /\ conversation = <<>>
    /\ NoRun
    /\ NoChain
    /\ NoConversationCall
    /\ NoBuilder
    /\ NoOllama
    /\ NoLicenseStore
    /\ NoSessionStore
    /\ NoAllocation
    /\ NoLicenseClients

\* The body shared by register and register_boxed; the map may iterate in
\* any order after an insertion.
InsertTool(tool, boxed) ==
    /\ Len(registrations) < MaxRegs
    /\ registry' = Insert(registry, tool)
    /\ order' \in Orders(DOMAIN registry')
    /\ registrations' = Append(registrations, [tool |-> tool, boxed |-> boxed])
    /\ UNCHANGED renders
    /\ UNCHANGED outside_reg

\* ToolRegistry::register
Register(tool) == InsertTool(tool, FALSE)

\* ToolRegistry::register_boxed
RegisterBoxed(tool) == InsertTool(tool, TRUE)

\* ToolRegistry::generate_prompt_section is called.
GeneratePrompt ==
    /\ Len(renders) < MaxRenders
    /\ renders' = Append(renders, [text |-> PromptSection(registry, order),
                                   regs |-> Len(registrations)])
    /\ order' = AfterValues(order)
    /\ UNCHANGED <<registry, registrations>>
    /\ UNCHANGED outside_reg

RegNext ==
    \/ \E tool \in RegTools : Register(tool)
    \/ \E tool \in RegTools : RegisterBoxed(tool)
    \/ GeneratePrompt

RegSpec == RegInit /\ [][RegNext]_vars

\* ------------------------------------------------------------------------
\* C21: after any sequence of register and register_boxed calls, get(name)
\* returns the tool most recently registered under that schema name, len()
\* is the number of distinct names registered, and get of a name never
\* registered returns none.
\* ------------------------------------------------------------------------
LookupNames == {tool.name : tool \in RegTools} \cup {"nosuch"}

RegisteredAs(name) ==
    {k \in DOMAIN registrations : registrations[k].tool.name = name}

C21_LastRegistrationWins ==
    /\ \A name \in LookupNames :
          LET found == RegistryGet(registry, name)
              ks == RegisteredAs(name)
          IN IF ks = {} THEN ~found.some
             ELSE /\ found.some
                  /\ found.tool =
                        registrations[CHOOSE k \in ks : \A j \in ks : j <= k].tool
    /\ RegistryLen(registry) =
          Cardinality({registrations[k].tool.name : k \in DOMAIN registrations})

C21_Witness ==
    /\ Len(registrations) = 3
    /\ registrations[1].tool = RegTool(1, "datetime")
    /\ registrations[2].tool.name = "calculate"
    /\ registrations[3].tool = RegTool(2, "datetime")
    /\ registrations[3].boxed
    /\ RegistryLen(registry) = 2

DefaultMaxIterations == 10

\* GenerationOptions::default, the fields the builder sets.
DefaultGeneration == [model |-> "llama3.2", temperature |-> "0.7"]

\* AgentConfig::default
DefaultConfig ==
    [system_prompt |-> "DEFAULT_SYSTEM_PROMPT",
     max_iterations |-> DefaultMaxIterations,
     generation |-> DefaultGeneration,
     inject_tool_descriptions |-> InjectToolDescriptions]

NoBackend == [some |-> FALSE, name |-> ""]
SomeBackend(name) == [some |-> TRUE, name |-> name]

\* AgentBuilder::new
NewBuilder ==
    [provider |-> NoBackend, tools |-> Registry({}), config |-> DefaultConfig]

\* Agent::new
NewAgent(provider, reg, config) ==
    [provider |-> provider, tools |-> reg, config |-> config]

NotBuilt == [tag |-> "none", agent |-> <<>>, err |-> NoError]
BuildOk(agent) == [tag |-> "ok", agent |-> agent, err |-> NoError]
BuildErr(e) == [tag |-> "err", agent |-> <<>>, err |-> e]

\* A variant that also refuses an empty tool set.
BuildRequiringTools(b) ==
    IF ~b.provider.some
    THEN BuildErr(Error("Config", <<T("Provider is required")>>))
    ELSE IF DOMAIN b.tools = {}
    THEN BuildErr(Error("Config", <<T("Tools are required")>>))
    ELSE BuildOk(NewAgent(b.provider.name, b.tools, b.config))

\* AgentBuilder::build
Build(b) ==
    IF ~b.provider.some
    THEN BuildErr(Error("Config", <<T("Provider is required")>>))
    ELSE BuildOk(NewAgent(b.provider.name, b.tools, b.config))

\* The settings the builder methods are given.
BuilderBackends == {"ollama"}
BuilderTools == {"DateTimeTool", "CalculatorTool"}
BuilderPrompts == {"custom prompt"}
BuilderModels == {"mistral"}
BuilderTemperatures == {"0.0"}
BuilderIterations == {0, 1}

BuilderInit ==
    /\ builder = NewBuilder
    /\ built = NotBuilt
    /\ conversation = <<>>
    /\ NoRun
    /\ NoChain
    /\ NoConversationCall
    /\ NoRegistration
    /\ NoOllama
    /\ NoLicenseStore
    /\ NoSessionStore
    /\ NoAllocation
    /\ NoLicenseClients

\* The builder has not been consumed by build.
Assembling == built = NotBuilt

\* AgentBuilder::provider
BuilderProvider(name) ==
    /\ Assembling
    /\ builder' = [builder EXCEPT !.provider = SomeBackend(name)]
    /\ UNCHANGED built
    /\ UNCHANGED outside_builder

\* AgentBuilder::tool
BuilderTool(tool) ==
    /\ Assembling
    /\ builder' = [builder EXCEPT !.tools =
                      [n \in DOMAIN @ \cup {Schema(tool).name} |->
                          IF n = Schema(tool).name THEN tool ELSE @[n]]]
    /\ UNCHANGED built
    /\ UNCHANGED outside_builder

\* AgentBuilder::tools
BuilderToolsReplaced(reg) ==
    /\ Assembling
    /\ builder' = [builder EXCEPT !.tools = reg]
    /\ UNCHANGED built
    /\ UNCHANGED outside_builder

\* AgentBuilder::system_prompt
BuilderSystemPrompt(prompt) ==
    /\ Assembling
    /\ builder' = [builder EXCEPT !.config.system_prompt = prompt]
    /\ UNCHANGED built
    /\ UNCHANGED outside_builder

\* AgentBuilder::model
BuilderModel(model) ==
    /\ Assembling
    /\ builder' = [builder EXCEPT !.config.generation.model = model]
    /\ UNCHANGED built
    /\ UNCHANGED outside_builder

\* AgentBuilder::temperature
BuilderTemperature(temp) ==
    /\ Assembling
    /\ builder' = [builder EXCEPT !.config.generation.temperature = temp]
    /\ UNCHANGED built
    /\ UNCHANGED outside_builder

\* AgentBuilder::max_iterations
BuilderMaxIterations(max) ==
    /\ Assembling
    /\ builder' = [builder EXCEPT !.config.max_iterations = max]
    /\ UNCHANGED built
    /\ UNCHANGED outside_builder

\* AgentBuilder::build, which consumes the builder.
BuilderBuild ==
    /\ Assembling
    /\ built' = Build(builder)
    /\ UNCHANGED builder
    /\ UNCHANGED outside_builder

BuilderNext ==
    \/ \E name \in BuilderBackends : BuilderProvider(name)
    \/ \E tool \in BuilderTools : BuilderTool(tool)
    \/ BuilderToolsReplaced(Registry({}))
    \/ \E prompt \in BuilderPrompts : BuilderSystemPrompt(prompt)
    \/ \E model \in BuilderModels : BuilderModel(model)
    \/ \E temp \in BuilderTemperatures : BuilderTemperature(temp)
    \/ \E max \in BuilderIterations : BuilderMaxIterations(max)
    \/ BuilderBuild

BuilderSpec == BuilderInit /\ [][BuilderNext]_vars

\* ------------------------------------------------------------------------
\* C23: AgentBuilder.build fails with a Config error if and only if no
\* provider was supplied; with a provider it succeeds for every combination
\* of the other settings, an empty tool set and max_iterations = 0 included.
\* ------------------------------------------------------------------------
C23_BuildNeedsOnlyProvider ==
    built # NotBuilt =>
        /\ built.tag \in {"ok", "err"}
        /\ built.tag = "err" <=> ~builder.provider.some
        /\ built.tag = "err" => built.err.kind = "Config"
        /\ built.tag = "ok" =>
              built.agent = [provider |-> builder.provider.name,
                             tools |-> builder.tools,
                             config |-> builder.config]

C23_Witness ==
    /\ built.tag = "ok"
    /\ DOMAIN builder.tools = {}
    /\ builder.config.max_iterations = 0
    /\ builder.config.generation.temperature = "0.0"

\* ========================================================================
\* The Ollama provider (agent-runtime, ollama.rs)
\* ========================================================================
MaxCalls == 3

\* The server answers; nothing listens at the address; the configured host
\* or port is wrong; the server answers with an error.
BackendStates == {"up", "unreachable", "misconfigured", "failing"}

\* What a request of the ollama-rs client resolves to in a backend state.
ClientOk == [ok |-> TRUE, error |-> ""]
ClientErr(text) == [ok |-> FALSE, error |-> text]
ClientRequest(state) ==
    CASE state = "up" -> ClientOk
      [] state = "unreachable" -> ClientErr("connection refused")
      [] state = "misconfigured" -> ClientErr("invalid address")
      [] state = "failing" -> ClientErr("status 500")

\* AgentError::is_retryable
IsRetryable(e) == e.kind \in {"ProviderUnavailable", "RateLimited", "Io"}

\* Result<T> of the provider methods.
CallOk(value) == [ok |-> TRUE, value |-> value, err |-> NoError]
CallErr(e) == [ok |-> FALSE, value |-> "", err |-> e]

\* A variant of health_check that propagates the error of the client.
HealthCheckPropagating(state) ==
    LET r == ClientRequest(state)
    IN IF r.ok THEN CallOk("true")
       ELSE CallErr(Error("ProviderUnavailable", <<T(r.error)>>))

\* OllamaProvider::health_check
HealthCheck(state) ==
    LET r == ClientRequest(state)
    IN IF r.ok THEN CallOk("true") ELSE CallOk("false")

\* OllamaProvider::complete
OllamaComplete(state) ==
    LET r == ClientRequest(state)
    IN IF r.ok THEN CallOk("completion")
       ELSE CallErr(Error("Provider", <<T(r.error)>>))

\* OllamaProvider::complete_stream, up to the stream it hands back.
OllamaCompleteStream(state) ==
    LET r == ClientRequest(state)
    IN IF r.ok THEN CallOk("stream")
       ELSE CallErr(Error("Provider", <<T(r.error)>>))

\* OllamaProvider::list_models
ListModels(state) ==
    LET r == ClientRequest(state)
    IN IF r.ok THEN CallOk("models")
       ELSE CallErr(Error("ProviderUnavailable", <<T(r.error)>>))

OllamaInit ==
    /\ backend \in BackendStates
    /\ calls = <<>>
    /\ conversation = <<>>
    /\ NoRun
    /\ NoChain
    /\ NoConversationCall
    /\ NoRegistration
    /\ NoBuilder
    /\ NoLicenseStore
    /\ NoSessionStore
    /\ NoAllocation
    /\ NoLicenseClients

\* The server goes down, comes back, or starts failing.
BackendChanges(state) ==
    /\ state # backend
    /\ backend' = state
    /\ UNCHANGED calls
    /\ UNCHANGED outside_ollama

Called(method, out) ==
    /\ Len(calls) < MaxCalls
    /\ calls' = Append(calls, [method |-> method, backend |-> backend, out |-> out])
    /\ UNCHANGED backend
    /\ UNCHANGED outside_ollama

CallHealthCheck == Called("health_check", HealthCheck(backend))
CallComplete == Called("complete", OllamaComplete(backend))
CallCompleteStream == Called("complete_stream", OllamaCompleteStream(backend))
CallListModels == Called("list_models", ListModels(backend))

OllamaNext ==
    \/ \E state \in BackendStates : BackendChanges(state)
    \/ CallHealthCheck
    \/ CallComplete
    \/ CallCompleteStream
    \/ CallListModels

OllamaSpec == OllamaInit /\ [][OllamaNext]_vars

\* ------------------------------------------------------------------------
\* C24: when the backend is unreachable or misconfigured, complete and
\* complete_stream fail with ProviderUnavailable, a kind is_retryable
\* reports as retryable, and not with Provider, a kind it does not.
\* ------------------------------------------------------------------------
C24_UnreachableIsRetryable ==
    \A k \in DOMAIN calls :
        (/\ calls[k].method \in {"complete", "complete_stream"}
         /\ calls[k].backend \in {"unreachable", "misconfigured"})
            => /\ ~calls[k].out.ok
               /\ calls[k].out.err.kind = "ProviderUnavailable"
               /\ IsRetryable(calls[k].out.err)

\* ------------------------------------------------------------------------
\* C25: health_check never fails: it returns Ok(true) when the backend
\* answers and Ok(false) on any backend failure, never an Err.
\* ------------------------------------------------------------------------
C25_HealthCheckNeverFails ==
    \A k \in DOMAIN calls :
        calls[k].method = "health_check" =>
            /\ calls[k].out.ok
            /\ calls[k].out.value = IF calls[k].backend = "up" THEN "true" ELSE "false"

C25_Witness ==
    /\ Len(calls) = 3
    /\ \A k \in DOMAIN calls : calls[k].method = "health_check"
    /\ calls[1].backend = "up"
    /\ calls[2].backend = "unreachable"
    /\ calls[3].backend = "failing"

\* ========================================================================
\* The license store (agent-payments, license.rs)
\* ========================================================================
MaxThreads == 2
MaxDays == 2
MaxChecks == 52

\* Plan::rate_limit of the Free plan.
FreeRateLimit == 50

\* Plan::rate_limit, for the Free plan; every license of this model is on it.
RateLimit(plan) == CASE plan = "free" -> FreeRateLimit

NoDate == 0
Days == 1..MaxDays
Threads == 1..MaxThreads

\* License::new, with the fields the store reads; dates are day numbers.
License(plan, active, expires_at) ==
    [plan |-> plan, active |-> active, expires_at |-> expires_at,
     usage_today |-> 0, usage_reset_date |-> NoDate]

\* License::is_valid
IsValid(lic, now) ==
    IF ~lic.active THEN FALSE
    ELSE IF lic.expires_at # NoDate /\ now > lic.expires_at THEN FALSE
    ELSE TRUE

\* check_and_increment_usage, the reset on a new day.
ResetIfNewDay(lic, day) ==
    IF lic.usage_reset_date # day
    THEN [lic EXCEPT !.usage_today = 0, !.usage_reset_date = day]
    ELSE lic

\* A variant of the limit test that admits one check more.
AtLimitExclusive(lic) == lic.usage_today > RateLimit(lic.plan)

\* check_and_increment_usage, the limit test.
AtLimit(lic) == lic.usage_today >= RateLimit(lic.plan)

\* check_and_increment_usage, the increment.
IncrementUsage(lic) == [lic EXCEPT !.usage_today = @ + 1]

\* RwLock::write is granted when nobody holds the lock.
CanWrite(holder) == holder = 0

\* LicenseVerification::valid and ::invalid
VerificationValid(plan, remaining) ==
    [valid |-> TRUE, plan |-> plan, remaining |-> remaining, message |-> ""]
VerificationInvalid(message) ==
    [valid |-> FALSE, plan |-> "", remaining |-> 0, message |-> message]

IdleVerifier ==
    [pc |-> "idle", key |-> "", day |-> NoDate, rank |-> 0, checked |-> FALSE,
     out |-> VerificationInvalid("")]

LicenseKeys == {"AAAA-0001"}
LookupKeys == LicenseKeys \cup {"ZZZZ-9999"}

LicenseInit ==
    /\ today = 1
    /\ licenses \in [LicenseKeys ->
                        {License("free", active, expires_at) :
                            active \in BOOLEAN, expires_at \in {NoDate, 1}}]
    /\ licenses_lock = 0
    /\ verifiers = [t \in Threads |-> IdleVerifier]
    /\ checks = [d \in Days |-> 0]
    /\ granted = [d \in Days |-> 0]
    /\ conversation = <<>>
    /\ NoRun
    /\ NoChain
    /\ NoConversationCall
    /\ NoRegistration
    /\ NoBuilder
    /\ NoOllama
    /\ NoSessionStore
    /\ NoAllocation
    /\ NoLicenseClients

\* The usage checks made so far.
RECURSIVE SumTo(_, _)
SumTo(f, d) == IF d = 0 THEN 0 ELSE f[d] + SumTo(f, d - 1)
ChecksMade == SumTo(checks, MaxDays)

\* The UTC date changes.
Midnight ==
    /\ today < MaxDays
    /\ today' = today + 1
    /\ UNCHANGED <<licenses, licenses_lock, verifiers, checks, granted>>
    /\ UNCHANGED outside_license

\* verify_and_use: self.licenses.write()
VerifyAcquire(t, key) ==
    /\ verifiers[t].pc = "idle"
    /\ CanWrite(licenses_lock)
    /\ licenses_lock' = t
    /\ verifiers' = [verifiers EXCEPT
                        ![t] = [IdleVerifier EXCEPT !.pc = "locked", !.key = key]]
    /\ UNCHANGED <<today, licenses, checks, granted>>
    /\ UNCHANGED outside_license

\* verify_and_use: the lookup, is_valid, and check_and_increment_usage up
\* to its limit test.
VerifyCheck(t) ==
    /\ verifiers[t].pc = "locked"
    /\ LET key == verifiers[t].key
       IN IF key \notin DOMAIN licenses
          THEN /\ verifiers' = [verifiers EXCEPT ![t].pc = "returning",
                                   ![t].out = VerificationInvalid("License not found")]
               /\ UNCHANGED <<licenses, checks>>
          ELSE IF ~IsValid(licenses[key], today)
          THEN /\ verifiers' = [verifiers EXCEPT ![t].pc = "returning",
                                   ![t].out = VerificationInvalid("License is not active")]
               /\ UNCHANGED <<licenses, checks>>
          ELSE LET lic == ResetIfNewDay(licenses[key], today)
               IN /\ ChecksMade < MaxChecks
                  /\ licenses' = [licenses EXCEPT ![key] = lic]
                  /\ checks' = [checks EXCEPT ![today] = @ + 1]
                  /\ verifiers' = [verifiers EXCEPT
                        ![t].pc = IF AtLimit(lic) THEN "returning" ELSE "incrementing",
                        ![t].day = today,
                        ![t].rank = checks[today],
                        ![t].checked = TRUE,
                        ![t].out = VerificationInvalid("Rate limit exceeded")]
    /\ UNCHANGED <<today, licenses_lock, granted>>
    /\ UNCHANGED outside_license

\* verify_and_use: the increment of check_and_increment_usage and the
\* verification built from it.
VerifyIncrement(t) ==
    /\ verifiers[t].pc = "incrementing"
    /\ LET key == verifiers[t].key
           lic == IncrementUsage(licenses[key])
           remaining == IF RateLimit(lic.plan) >= lic.usage_today
                        THEN RateLimit(lic.plan) - lic.usage_today ELSE 0
       IN /\ licenses' = [licenses EXCEPT ![key] = lic]
          /\ verifiers' = [verifiers EXCEPT ![t].pc = "returning",
                              ![t].out = VerificationValid(lic.plan, remaining)]
    /\ granted' = [granted EXCEPT ![verifiers[t].day] = @ + 1]
    /\ UNCHANGED <<today, licenses_lock, checks>>
    /\ UNCHANGED outside_license

\* verify_and_use returns and the write guard is dropped.
VerifyReturn(t) ==
    /\ verifiers[t].pc = "returning"
    /\ licenses_lock' = IF licenses_lock = t THEN 0 ELSE licenses_lock
    /\ verifiers' = [verifiers EXCEPT ![t] = IdleVerifier]
    /\ UNCHANGED <<today, licenses, checks, granted>>
    /\ UNCHANGED outside_license

LicenseNext ==
    \/ Midnight
    \/ \E t \in Threads, key \in LookupKeys : VerifyAcquire(t, key)
    \/ \E t \in Threads : VerifyCheck(t)
    \/ \E t \in Threads : VerifyIncrement(t)
    \/ \E t \in Threads : VerifyReturn(t)

LicenseSpec == LicenseInit /\ [][LicenseNext]_vars

\* ------------------------------------------------------------------------
\* C26: for a Free-plan license, within one UTC calendar day exactly the
\* first 50 usage checks succeed and every later one that day is refused,
\* so usage_today never exceeds 50; this holds as well when verify_and_use
\* is called from several threads at once.
\* ------------------------------------------------------------------------
Min(a, b) == IF a <= b THEN a ELSE b

\* The threads whose check on a day passed and whose increment is due.
Passing(d) ==
    {t \in Threads : verifiers[t].pc = "incrementing" /\ verifiers[t].day = d}

C26_FreePlanFiftyPerDay ==
    \A key \in DOMAIN licenses : licenses[key].plan = "free" =>
        /\ licenses[key].usage_today <= 50
        /\ \A d \in Days :
              /\ granted[d] <= 50
              /\ granted[d] + Cardinality(Passing(d)) = Min(checks[d], 50)
        /\ \A t \in Threads :
              (verifiers[t].checked /\ verifiers[t].pc = "returning") =>
                  (verifiers[t].out.valid <=> verifiers[t].rank < 50)

C26_Witness ==
    /\ checks[1] = 52
    /\ granted[1] = 50
    /\ today = 1
    /\ \E t \in Threads :
          /\ verifiers[t].pc = "returning"
          /\ verifiers[t].rank = 51
          /\ ~verifiers[t].out.valid

\* ------------------------------------------------------------------------
\* C40: a refused verify_and_use consumes no quota: for an unknown, inactive
\* or expired license it returns an invalid verification and usage_today is
\* what it was, and a rate-limit refusal leaves usage_today equal to the
\* plan's limit.
\* ------------------------------------------------------------------------
\* verify_and_use of thread t decides to refuse.
Refuses(t) ==
    /\ VerifyCheck(t)
    /\ verifiers'[t].pc = "returning"

\* The refusal is the one of check_and_increment_usage.
RateLimited(t) == verifiers[t].checked

C40_RefusedVerifyConsumesNoQuota ==
    [][\A t \in Threads : Refuses(t) =>
          LET key == verifiers[t].key
          IN /\ ~verifiers'[t].out.valid
             /\ ~RateLimited(t)' =>
                   /\ DOMAIN licenses' = DOMAIN licenses
                   /\ \A k \in DOMAIN licenses :
                         licenses'[k].usage_today = licenses[k].usage_today
             /\ RateLimited(t)' =>
                   licenses'[key].usage_today = RateLimit(licenses'[key].plan)]_vars

C40_Witness ==
    \E t \in Threads :
        /\ verifiers[t].pc = "returning"
        /\ verifiers[t].out = VerificationInvalid("Rate limit exceeded")
        /\ licenses[verifiers[t].key].usage_today = RateLimit("free")

\* ========================================================================
\* The session store (session.rs)
\* ========================================================================
MaxStoreCalls == 4

SessionIds == {"s1", "s2"}

\* A session: its id and the state it was saved in.
Session(id, revision) == [id |-> id, revision |-> revision]
Sessions == {Session(id, revision) : id \in SessionIds, revision \in 1..2}

NoSession == [some |-> FALSE, session |-> Session("", 0)]
SomeSession(session) == [some |-> TRUE, session |-> session]

\* A variant of the insertion that keeps the session already stored.
SessionInsertIfAbsent(map, session) ==
    [id \in DOMAIN map \cup {session.id} |->
        IF id \in DOMAIN map THEN map[id] ELSE session]

\* sessions.insert(session.id.clone(), session.clone())
SessionInsert(map, session) ==
    [id \in DOMAIN map \cup {session.id} |->
        IF id = session.id THEN session ELSE map[id]]

\* sessions.get(id).cloned()
SessionGet(map, id) ==
    IF id \in DOMAIN map THEN SomeSession(map[id]) ELSE NoSession

\* sessions.remove(id)
SessionRemove(map, id) == [i \in DOMAIN map \ {id} |-> map[i]]

SessionInit ==
    /\ sessions = <<>>
    /\ store_calls = <<>>
    /\ conversation = <<>>
    /\ NoRun
    /\ NoChain
    /\ NoConversationCall
    /\ NoRegistration
    /\ NoBuilder
    /\ NoOllama
    /\ NoLicenseStore
    /\ NoAllocation
    /\ NoLicenseClients

StoreCall(method, id, session, ret) ==
    [method |-> method, id |-> id, session |-> session, ret |-> ret]

\* MemorySessionStore::save
SessionSave(session) ==
    /\ Len(store_calls) < MaxStoreCalls
    /\ sessions' = SessionInsert(sessions, session)
    /\ store_calls' = Append(store_calls,
                             StoreCall("save", session.id, session, NoSession))
    /\ UNCHANGED outside_session

\* MemorySessionStore::load
SessionLoad(id) ==
    /\ Len(store_calls) < MaxStoreCalls
    /\ store_calls' = Append(store_calls,
                             StoreCall("load", id, Session("", 0), SessionGet(sessions, id)))
    /\ UNCHANGED sessions
    /\ UNCHANGED outside_session

\* MemorySessionStore::delete
SessionDelete(id) ==
    /\ Len(store_calls) < MaxStoreCalls
    /\ sessions' = SessionRemove(sessions, id)
    /\ store_calls' = Append(store_calls,
                             StoreCall("delete", id, Session("", 0), NoSession))
    /\ UNCHANGED outside_session

SessionNext ==
    \/ \E session \in Sessions : SessionSave(session)
    \/ \E id \in SessionIds : SessionLoad(id)
    \/ \E id \in SessionIds : SessionDelete(id)

SessionSpec == SessionInit /\ [][SessionNext]_vars

\* ------------------------------------------------------------------------
\* C27: for any sequence of save, load and delete calls, load(id) returns
\* the session most recently saved under id if it was not deleted since,
\* and None otherwise; saving twice under one id keeps a single entry that
\* holds the later value.
\* ------------------------------------------------------------------------
\* The last save or delete of an id before call k, or 0.
LastWrite(id, k) ==
    LET ws == {j \in 1..(k - 1) : /\ store_calls[j].id = id
                                  /\ store_calls[j].method \in {"save", "delete"}}
    IN IF ws = {} THEN 0 ELSE CHOOSE j \in ws : \A i \in ws : i <= j

Expected(id, k) ==
    LET w == LastWrite(id, k)
    IN IF w = 0 \/ store_calls[w].method = "delete" THEN NoSession
       ELSE SomeSession(store_calls[w].session)

C27_LoadReturnsLastSave ==
    /\ \A k \in DOMAIN store_calls :
          store_calls[k].method = "load" =>
              store_calls[k].ret = Expected(store_calls[k].id, k)
    /\ \A id \in SessionIds :
          LET e == Expected(id, Len(store_calls) + 1)
          IN /\ id \in DOMAIN sessions <=> e.some
             /\ e.some => sessions[id] = e.session
    /\ DOMAIN sessions \subseteq SessionIds

C27_Witness ==
    /\ Len(store_calls) = 4
    /\ store_calls[1] = StoreCall("save", "s1", Session("s1", 1), NoSession)
    /\ store_calls[2] = StoreCall("save", "s1", Session("s1", 2), NoSession)
    /\ store_calls[3].method = "load"
    /\ store_calls[3].ret = SomeSession(Session("s1", 2))
    /\ store_calls[4].method = "delete"
    /\ sessions = <<>>

\* ========================================================================
\* The diversification strategy (strategy/diversification.rs)
\* ========================================================================
\* A Decimal is kept as a whole number of units of 10^-Digits: the finest
\* step the type can hold.  Products and quotients that need a finer step
\* are rounded to the nearest unit.
Digits == 2
MaxAssets == 3

RECURSIVE Pow10(_)
Pow10(n) == IF n = 0 THEN 1 ELSE 10 * Pow10(n - 1)

Scale == Pow10(Digits)

\* Nearest whole quotient of two non-negative numbers, ties to even.
RoundDiv(n, d) ==
    LET q == n \div d
        r == n % d
    IN IF 2 * r > d \/ (2 * r = d /\ q % 2 = 1) THEN q + 1 ELSE q

\* Decimal::from
DecFrom(n) == n * Scale

\* Decimal * Decimal
DecMul(a, b) == RoundDiv(a * b, Scale)

\* Decimal / Decimal
DecDiv(a, b) == RoundDiv(a * Scale, b)

DecMin(a, b) == IF a <= b THEN a ELSE b

\* dec!(2.0), dec!(1.5), dec!(0.75), dec!(0.5)
DecTenths(n) == (n * Scale) \div 10
DecHundredths(n) == (n * Scale) \div 100

\* RiskProfile::from_tolerance: the fields allocate reads.
RiskProfile(tolerance, max_single_allocation) ==
    [tolerance |-> tolerance, max_single_allocation |-> max_single_allocation]

Conservative == RiskProfile(1, DecFrom(20))
Moderate == RiskProfile(3, DecFrom(30))
Aggressive == RiskProfile(5, DecFrom(50))

FromTolerance(level) ==
    CASE level = 1 -> Conservative
      [] level = 2 -> RiskProfile(2, DecFrom(25))
      [] level = 3 -> Moderate
      [] level = 4 -> RiskProfile(4, DecFrom(40))
      [] OTHER -> Aggressive

ToleranceLevels == 0..6

\* Asset::new followed or not by Asset::classify_risk.
DefaultRiskTier == 3

ClassifyRisk(symbol) ==
    CASE symbol \in {"BTC", "ETH"} -> 1
      [] symbol \in {"SOL", "ADA", "DOT", "AVAX"} -> 2
      [] symbol \in {"LINK", "MATIC", "ATOM", "XRP"} -> 3
      [] OTHER -> 4

Asset(symbol, price_usd, risk_tier) ==
    [symbol |-> symbol, price_usd |-> price_usd, risk_tier |-> risk_tier]

PriceUsd(symbol) ==
    CASE symbol = "BTC" -> DecFrom(50000)
      [] symbol = "SOL" -> DecFrom(100)
      [] OTHER -> 0

Symbols == {"BTC", "SOL", "DOGE"}

Assets ==
    {Asset(s, PriceUsd(s), t) : s \in Symbols, t \in {DefaultRiskTier}}
        \cup {Asset(s, PriceUsd(s), ClassifyRisk(s)) : s \in Symbols}

\* The asset lists of up to MaxAssets assets, one per symbol.
AssetLists ==
    UNION {{l \in [1..n -> Assets] :
                \A i, j \in 1..n : i # j => l[i].symbol # l[j].symbol} :
           n \in 0..MaxAssets}

\* The amounts asked for: none, a negative one, the finest steps of the
\* type, and whole amounts.
Totals == {DecFrom(-1), 0, 1, 6, DecFrom(1), DecFrom(10)}

\* sorted_assets.sort_by_key(|a| a.risk_tier): a stable sort.
RECURSIVE SortByRiskTier(_)
SortByRiskTier(assets) ==
    IF assets = <<>> THEN <<>>
    ELSE LET lowest == CHOOSE i \in DOMAIN assets :
                 /\ \A j \in DOMAIN assets :
                        assets[i].risk_tier <= assets[j].risk_tier
                 /\ \A j \in 1..(i - 1) :
                        assets[j].risk_tier > assets[i].risk_tier
             rest == [k \in 1..(Len(assets) - 1) |->
                         IF k < lowest THEN assets[k] ELSE assets[k + 1]]
         IN <<assets[lowest]>> \o SortByRiskTier(rest)

MaxTier(assets) ==
    CHOOSE t \in {assets[i].risk_tier : i \in DOMAIN assets} :
        \A i \in DOMAIN assets : assets[i].risk_tier <= t

\* The closure of calculate_weights: the raw weight of one asset.
RawWeight(profile, max_tier, asset) ==
    LET base == DecFrom(max_tier - asset.risk_tier + 1)
    IN CASE profile.tolerance = 1 -> DecMul(base, DecTenths(20))
         [] profile.tolerance = 2 -> DecMul(base, DecTenths(15))
         [] profile.tolerance = 3 -> base
         [] profile.tolerance = 4 -> DecMul(base, DecHundredths(75))
         [] OTHER -> DecMul(base, DecTenths(5))

RECURSIVE DecSum(_)
DecSum(s) == IF s = <<>> THEN 0 ELSE s[1] + DecSum(Tail(s))

\* DiversificationStrategy::calculate_weights
CalculateWeights(profile, assets) ==
    LET n == Len(assets)
        raw_weights == [i \in 1..n |->
                            RawWeight(profile, MaxTier(assets), assets[i])]
        total == DecSum(raw_weights)
    IN IF n = 0 THEN <<>>
       ELSE IF total = 0 THEN [i \in 1..n |-> DecDiv(DecFrom(1), DecFrom(n))]
       ELSE [i \in 1..n |-> DecDiv(raw_weights[i], total)]

\* DiversificationStrategy::rationale_for_asset: the tier description.
TierDesc(risk_tier) ==
    CASE risk_tier = 1 -> "Blue chip, lowest relative risk"
      [] risk_tier = 2 -> "Large cap, established project"
      [] risk_tier = 3 -> "Mid cap, moderate risk"
      [] risk_tier = 4 -> "Small cap, higher risk"
      [] OTHER -> "Speculative, high risk"

\* Allocation::new, then the rationale.  The rationale's text prints the
\* percentage, the symbol and the description; its parts are kept.
Allocation(asset, percent, amount_usd) ==
    [symbol |-> asset.symbol,
     percent |-> percent,
     amount_usd |-> amount_usd,
     quantity |-> IF asset.price_usd > 0
                  THEN DecDiv(amount_usd, asset.price_usd) ELSE 0,
     risk_tier |-> asset.risk_tier,
     rationale |-> <<percent, asset.symbol, TierDesc(asset.risk_tier)>>]

\* The loop of allocate from the i-th sorted asset on.
RECURSIVE AllocateLoop(_, _, _, _, _, _)
AllocateLoop(profile, total_amount, sorted_assets, weights, i, remaining) ==
    IF i > Len(sorted_assets) THEN <<>>
    ELSE LET capped_weight ==
                 DecMin(weights[i],
                        DecDiv(profile.max_single_allocation, DecFrom(100)))
             amount == DecMin(DecMul(total_amount, capped_weight), remaining)
             percent == DecMul(DecDiv(amount, total_amount), DecFrom(100))
         IN IF amount > 0
            THEN <<Allocation(sorted_assets[i], percent, amount)>>
                     \o AllocateLoop(profile, total_amount, sorted_assets,
                                     weights, i + 1, remaining - amount)
            ELSE AllocateLoop(profile, total_amount, sorted_assets,
                              weights, i + 1, remaining)

\* DiversificationStrategy::allocate
Allocate(profile, total_amount, assets) ==
    IF assets = <<>> \/ total_amount <= 0 THEN <<>>
    ELSE LET sorted_assets == SortByRiskTier(assets)
             weights == CalculateWeights(profile, sorted_assets)
         IN AllocateLoop(profile, total_amount, sorted_assets, weights,
                         1, total_amount)

AllocInit ==
    /\ request \in {[profile |-> FromTolerance(level),
                     total_amount |-> total_amount,
                     assets |-> assets] :
                        level \in ToleranceLevels,
                        total_amount \in Totals,
                        assets \in AssetLists}
    /\ allocated = FALSE
    /\ allocations = <<>>
    /\ conversation = <<>>
    /\ NoRun
    /\ NoChain
    /\ NoConversationCall
    /\ NoRegistration
    /\ NoBuilder
    /\ NoOllama
    /\ NoLicenseStore
    /\ NoSessionStore
    /\ NoLicenseClients

\* strategy.allocate(total_amount, &assets)
CallAllocate ==
    /\ ~allocated
    /\ allocated' = TRUE
    /\ allocations' = Allocate(request.profile, request.total_amount,
                               request.assets)
    /\ UNCHANGED request
    /\ UNCHANGED outside_alloc

AllocNext == CallAllocate

AllocSpec == AllocInit /\ [][AllocNext]_vars

\* ------------------------------------------------------------------------
\* C28: allocate(total, assets) returns allocations whose amounts are each
\* strictly positive and sum to at most total, with no single allocation
\* above max_single_allocation percent of total; with no assets or
\* total <= 0 it returns an empty list.
\* ------------------------------------------------------------------------
AmountsPositive ==
    \A i \in DOMAIN allocations : allocations[i].amount_usd > 0

AmountsWithinTotal ==
    DecSum([i \in DOMAIN allocations |-> allocations[i].amount_usd])
        <= request.total_amount

\* amount <= total * max_single_allocation / 100, compared exactly.
AmountsWithinCap ==
    \A i \in DOMAIN allocations :
        allocations[i].amount_usd * DecFrom(100)
            <= request.total_amount * request.profile.max_single_allocation

NothingToAllocate ==
    request.assets = <<>> \/ request.total_amount <= 0

C28_AllocationsWithinLimits ==
    allocated =>
        /\ allocations # <<>> =>
              /\ AmountsPositive
              /\ AmountsWithinTotal
              /\ AmountsWithinCap
        /\ NothingToAllocate => allocations = <<>>

\* ========================================================================
\* The license store shared by several threads (license.rs)
\* ========================================================================
MaxLicenseCalls == 3

StoreKeys == 1..2
SubscriptionIds == {"sub_1", "sub_2"}
Plans == {"free", "pro"}

\* A License as the store holds it: LicenseKey::generate numbers the keys.
StoredLicense(key, subscription_id, plan, active) ==
    [key |-> key, subscription_id |-> subscription_id] @@
        License(plan, active, NoDate)

\* An RwLock nobody holds.
Unlocked == [writer |-> 0, readers |-> {}]

\* RwLock::write is granted when no writer and no reader holds the lock.
CanWriteLock(lock) == CanWrite(lock.writer) /\ lock.readers = {}

\* RwLock::read is granted when no writer holds the lock.
CanReadLock(lock) == lock.writer = 0

\* The guards of a thread are dropped when its call returns.
Unlock(lock, t) ==
    [writer |-> IF lock.writer = t THEN 0 ELSE lock.writer,
     readers |-> lock.readers \ {t}]

\* HashMap::insert and HashMap::remove
MapInsert(map, k, v) == [x \in DOMAIN map \cup {k} |-> IF x = k THEN v ELSE map[x]]
MapRemove(map, k) == [x \in DOMAIN map \ {k} |-> map[x]]

\* save, the two inserts.
SaveIndex(by_sub, license) == MapInsert(by_sub, license.subscription_id, license.key)
SaveLicenses(lics, license) == MapInsert(lics, license.key, license)

\* delete, the removals.
DeleteIndex(lics, by_sub, key) ==
    IF key \in DOMAIN lics THEN MapRemove(by_sub, lics[key].subscription_id)
    ELSE by_sub
DeleteLicenses(lics, key) == MapRemove(lics, key)

\* get_by_subscription: the license the index leads to, inside a set.
GetBySubscription(lics, by_sub, subscription_id) ==
    IF subscription_id \in DOMAIN by_sub
    THEN IF by_sub[subscription_id] \in DOMAIN lics
         THEN {lics[by_sub[subscription_id]]}
         ELSE {}
    ELSE {}

\* verify_and_use, what it does to licenses once it holds the write guard.
VerifyAndUse(lics, key, day) ==
    IF key \notin DOMAIN lics THEN lics
    ELSE IF ~IsValid(lics[key], day) THEN lics
    ELSE LET lic == ResetIfNewDay(lics[key], day)
         IN IF AtLimit(lic) THEN [lics EXCEPT ![key] = lic]
            ELSE [lics EXCEPT ![key] = IncrementUsage(lic)]

Methods == {"save", "delete", "get", "get_by_subscription", "verify_and_use"}

IdleClient ==
    [pc |-> "idle", method |-> "", key |-> 0, subscription_id |-> "",
     active |-> FALSE]

StoreInit ==
    /\ store_licenses = <<>>
    /\ by_subscription = <<>>
    /\ licenses_rw = Unlocked
    /\ by_subscription_rw = Unlocked
    /\ clients = [t \in Threads |-> IdleClient]
    /\ license_calls = 0
    /\ keys_generated = 0
    /\ handled = <<>>
    /\ conversation = <<>>
    /\ NoRun
    /\ NoChain
    /\ NoConversationCall
    /\ NoRegistration
    /\ NoBuilder
    /\ NoOllama
    /\ NoLicenseStore
    /\ NoSessionStore
    /\ NoAllocation

\* A thread calls a method of the store; save is given a license.
Invoke(t, method, key, subscription_id, active) ==
    /\ clients[t].pc = "idle"
    /\ license_calls < MaxLicenseCalls
    /\ license_calls' = license_calls + 1
    /\ clients' = [clients EXCEPT ![t] =
            [pc |-> "called", method |-> method,
             key |-> IF method = "get_by_subscription" THEN 0 ELSE key,
             subscription_id |->
                 IF method \in {"save", "get_by_subscription"}
                 THEN subscription_id ELSE "",
             active |-> method = "save" /\ active]]
    /\ UNCHANGED <<store_licenses, by_subscription, licenses_rw,
                   by_subscription_rw, keys_generated, handled>>
    /\ UNCHANGED outside_clients

\* save, delete and verify_and_use: self.licenses.write()
LockLicensesWrite(t) ==
    /\ clients[t].pc = "called"
    /\ clients[t].method \in {"save", "delete", "verify_and_use"}
    /\ CanWriteLock(licenses_rw)
    /\ licenses_rw' = [licenses_rw EXCEPT !.writer = t]
    /\ clients' = [clients EXCEPT ![t].pc =
            IF clients[t].method = "verify_and_use" THEN "locked"
            ELSE "holds_licenses"]
    /\ UNCHANGED <<store_licenses, by_subscription, by_subscription_rw,
                   license_calls, keys_generated, handled>>
    /\ UNCHANGED outside_clients

\* save and delete: self.by_subscription.write(), the licenses guard held.
LockBySubscriptionWrite(t) ==
    /\ clients[t].pc = "holds_licenses"
    /\ CanWriteLock(by_subscription_rw)
    /\ by_subscription_rw' = [by_subscription_rw EXCEPT !.writer = t]
    /\ clients' = [clients EXCEPT ![t].pc = "locked"]
    /\ UNCHANGED <<store_licenses, by_subscription, licenses_rw,
                   license_calls, keys_generated, handled>>
    /\ UNCHANGED outside_clients

\* get_by_subscription: self.by_subscription.read()
LockBySubscriptionRead(t) ==
    /\ clients[t].pc = "called"
    /\ clients[t].method = "get_by_subscription"
    /\ CanReadLock(by_subscription_rw)
    /\ by_subscription_rw' = [by_subscription_rw EXCEPT !.readers = @ \cup {t}]
    /\ clients' = [clients EXCEPT ![t].pc = "holds_by_subscription"]
    /\ UNCHANGED <<store_licenses, by_subscription, licenses_rw,
                   license_calls, keys_generated, handled>>
    /\ UNCHANGED outside_clients

\* get, and get_by_subscription with the by_subscription guard held:
\* self.licenses.read()
LockLicensesRead(t) ==
    /\ \/ clients[t].pc = "called" /\ clients[t].method = "get"
       \/ clients[t].pc = "holds_by_subscription"
    /\ CanReadLock(licenses_rw)
    /\ licenses_rw' = [licenses_rw EXCEPT !.readers = @ \cup {t}]
    /\ clients' = [clients EXCEPT ![t].pc = "locked"]
    /\ UNCHANGED <<store_licenses, by_subscription, by_subscription_rw,
                   license_calls, keys_generated, handled>>
    /\ UNCHANGED outside_clients

\* The body of the method under its guards, and the return that drops them.
StoreReturn(t) ==
    /\ clients[t].pc = "locked"
    /\ LET c == clients[t]
           license == StoredLicense(c.key, c.subscription_id, "free", c.active)
       IN CASE c.method = "save" ->
                  /\ by_subscription' = SaveIndex(by_subscription, license)
                  /\ store_licenses' = SaveLicenses(store_licenses, license)
            [] c.method = "delete" ->
                  /\ by_subscription' =
                         DeleteIndex(store_licenses, by_subscription, c.key)
                  /\ store_licenses' = DeleteLicenses(store_licenses, c.key)
            [] c.method = "verify_and_use" ->
                  /\ store_licenses' = VerifyAndUse(store_licenses, c.key, today)
                  /\ UNCHANGED by_subscription
            [] OTHER -> UNCHANGED <<store_licenses, by_subscription>>
    /\ licenses_rw' = Unlock(licenses_rw, t)
    /\ by_subscription_rw' = Unlock(by_subscription_rw, t)
    /\ clients' = [clients EXCEPT ![t] = IdleClient]
    /\ UNCHANGED <<license_calls, keys_generated, handled>>
    /\ UNCHANGED outside_clients

\* The steps a thread inside a call takes.
StoreStep(t) ==
    \/ LockLicensesWrite(t)
    \/ LockBySubscriptionWrite(t)
    \/ LockBySubscriptionRead(t)
    \/ LockLicensesRead(t)
    \/ StoreReturn(t)

StoreNext ==
    \/ \E t \in Threads, method \in Methods, key \in StoreKeys,
          subscription_id \in SubscriptionIds, active \in BOOLEAN :
          Invoke(t, method, key, subscription_id, active)
    \/ \E t \in Threads : LockLicensesWrite(t)
    \/ \E t \in Threads : LockBySubscriptionWrite(t)
    \/ \E t \in Threads : LockBySubscriptionRead(t)
    \/ \E t \in Threads : LockLicensesRead(t)
    \/ \E t \in Threads : StoreReturn(t)

StoreSpec == StoreInit /\ [][StoreNext]_vars

\* The threads run: a thread whose next step is possible takes it.
StoreFairSpec == StoreSpec /\ \A t \in Threads : WF_vars(StoreStep(t))

\* ------------------------------------------------------------------------
\* C38: MemoryLicenseStore never deadlocks: under any interleaving of
\* concurrent save, delete, get, get_by_subscription and verify_and_use
\* calls from several threads, every call eventually returns.
\* ------------------------------------------------------------------------
InCall(t) == clients[t].pc # "idle"

C38_EveryCallReturns ==
    \A t \in Threads : InCall(t) ~> ~InCall(t)

\* ========================================================================
\* The webhook handler (webhook.rs)
\* ========================================================================
MaxEvents == 4

\* Subscription statuses Stripe reports; the handler tells two of them apart.
Statuses == {"active", "trialing", "canceled"}

\* License::deactivate and License::reactivate
Deactivate(license) == [license EXCEPT !.active = FALSE]
Reactivate(license) == [license EXCEPT !.active = TRUE]

\* LicenseKey::generate: a key no earlier call returned.
GenerateKey(generated) == generated + 1

\* The event as handle returns it.
Event(type, subscription_id) == [type |-> type, subscription_id |-> subscription_id]

WebhookInit ==
    /\ store_licenses = <<>>
    /\ by_subscription = <<>>
    /\ licenses_rw = Unlocked
    /\ by_subscription_rw = Unlocked
    /\ clients = [t \in Threads |-> IdleClient]
    /\ license_calls = 0
    /\ keys_generated = 0
    /\ handled = <<>>
    /\ conversation = <<>>
    /\ NoRun
    /\ NoChain
    /\ NoConversationCall
    /\ NoRegistration
    /\ NoBuilder
    /\ NoOllama
    /\ NoLicenseStore
    /\ NoSessionStore
    /\ NoAllocation

\* handle, CheckoutCompleted: License::new and save.
HandleCheckoutCompleted(subscription_id, plan) ==
    /\ Len(handled) < MaxEvents
    /\ LET key == GenerateKey(keys_generated)
           license == StoredLicense(key, subscription_id, plan, TRUE)
       IN /\ keys_generated' = key
          /\ by_subscription' = SaveIndex(by_subscription, license)
          /\ store_licenses' = SaveLicenses(store_licenses, license)
    /\ handled' = Append(handled, Event("CheckoutCompleted", subscription_id))
    /\ UNCHANGED <<licenses_rw, by_subscription_rw, clients, license_calls>>
    /\ UNCHANGED outside_clients

\* handle, SubscriptionCancelled: get_by_subscription, deactivate, save.
HandleSubscriptionCancelled(subscription_id) ==
    /\ Len(handled) < MaxEvents
    /\ LET found == GetBySubscription(store_licenses, by_subscription,
                                      subscription_id)
       IN IF found = {}
          THEN UNCHANGED <<store_licenses, by_subscription>>
          ELSE \E got \in found :
                  LET license == Deactivate(got)
                  IN /\ by_subscription' = SaveIndex(by_subscription, license)
                     /\ store_licenses' = SaveLicenses(store_licenses, license)
    /\ handled' = Append(handled, Event("SubscriptionCancelled", subscription_id))
    /\ UNCHANGED <<licenses_rw, by_subscription_rw, clients, license_calls,
                   keys_generated>>
    /\ UNCHANGED outside_clients

\* handle, SubscriptionUpdated: get_by_subscription, reactivate or
\* deactivate by the status, save; parse_webhook_event passes no plan.
HandleSubscriptionUpdated(subscription_id, status) ==
    /\ Len(handled) < MaxEvents
    /\ LET found == GetBySubscription(store_licenses, by_subscription,
                                      subscription_id)
           is_active == status \in {"active", "trialing"}
       IN IF found = {}
          THEN UNCHANGED <<store_licenses, by_subscription>>
          ELSE \E got \in found :
                  LET license == IF is_active THEN Reactivate(got)
                                 ELSE Deactivate(got)
                  IN /\ by_subscription' = SaveIndex(by_subscription, license)
                     /\ store_licenses' = SaveLicenses(store_licenses, license)
    /\ handled' = Append(handled, Event("SubscriptionUpdated", subscription_id))
    /\ UNCHANGED <<licenses_rw, by_subscription_rw, clients, license_calls,
                   keys_generated>>
    /\ UNCHANGED outside_clients

\* handle, PaymentFailed and Other: the store is not touched.
HandleLogged(type) ==
    /\ Len(handled) < MaxEvents
    /\ handled' = Append(handled, Event(type, ""))
    /\ UNCHANGED <<store_licenses, by_subscription, licenses_rw,
                   by_subscription_rw, clients, license_calls, keys_generated>>
    /\ UNCHANGED outside_clients

WebhookNext ==
    \/ \E s \in SubscriptionIds, plan \in Plans : HandleCheckoutCompleted(s, plan)
    \/ \E s \in SubscriptionIds : HandleSubscriptionCancelled(s)
    \/ \E s \in SubscriptionIds, status \in Statuses :
          HandleSubscriptionUpdated(s, status)
    \/ \E type \in {"PaymentFailed", "Other"} : HandleLogged(type)

WebhookSpec == WebhookInit /\ [][WebhookNext]_vars

\* ------------------------------------------------------------------------
\* C39: after handle has processed a SubscriptionCancelled event for
\* subscription S, no license stored with subscription_id S is valid, for
\* any preceding sequence of CheckoutCompleted and SubscriptionUpdated
\* events, a repeated CheckoutCompleted for the same S included.
\* ------------------------------------------------------------------------
LastHandled == handled[Len(handled)]

StoredFor(subscription_id) ==
    {store_licenses[k] : k \in {x \in DOMAIN store_licenses :
        store_licenses[x].subscription_id = subscription_id}}

C39_CancelledSubscriptionHasNoValidLicense ==
    (Len(handled) > 0 /\ LastHandled.type = "SubscriptionCancelled") =>
        \A license \in StoredFor(LastHandled.subscription_id) :
            ~IsValid(license, today)

====
